---- MODULE Spec2Model ----
(***************************************************************************)
(* Universal Credit calculator (chrisstorey/uc_calculator_mcp).            *)
(*                                                                         *)
(* The entitlement engine app/utils/uc_calculator.py is a pure function of *)
(* its arguments and of the rate schedule held by the calculator object.   *)
(*                                                                         *)
(* Money.  The code computes in binary floating point and emits every      *)
(* field through round(x, 2).  Here an amount is an integer number of      *)
(* units of 0.0001 pound, so that every product of a whole-pence amount    *)
(* with a two-decimal rate (0.85, 0.55) is exact.  Inputs are whole-pence  *)
(* amounts.  The floating-point error of a stage value (about 1e-13) is    *)
(* far below half a penny, so round(x, 2) returns the nearest penny of the *)
(* exact value, except where the exact value lies exactly half way between *)
(* two pennies: there the sign of the representation error decides, and    *)
(* the code rounds some such values up and others down (0.10 * 0.55 is     *)
(* emitted as 0.06, 150.10 * 0.85 as 127.58).  The direction taken at a    *)
(* half is therefore an input of the action, chosen per emitted field.     *)
(* Floating-point arithmetic is deterministic: where several calls are     *)
(* made, the direction is fixed per arguments and field (rounds_up).       *)
(***************************************************************************)
EXTENDS Integers, Sequences, FiniteSets, TLC

VARIABLES
    rates,      \* calculator.rates, the rate schedule
    call,       \* the arguments of the call of calculate
    pc,         \* "call" before calculate runs, "done" after; "idle" in the API
    half_up,    \* the emitted fields whose exact half penny rounded up
    frame,      \* the unrounded locals of calculate at its return
    returned,   \* the dictionary calculate returned
    raised,     \* the exception calculate raised, "" for none
    request,    \* the last request of POST /calculate
    response,   \* the response to it
    db,         \* the rows of the table uc_claims
    handled,    \* the number of requests handled so far
    rounds_up,  \* the <<arguments, field>> whose exact half penny rounds up
    history,    \* the calls made of the shared calculator, in order
    threads,    \* the calls in flight on the shared calculator, per thread
    lookup,     \* a lookup of LHAService and what it returned
    lha_rates,  \* the table LHAService.DEFAULT_LHA_RATES
    items_db,   \* the dictionary items_db of routers/items.py
    users_db    \* the dictionary users_db of routers/users.py

engine == <<rates, call, pc, half_up, frame, returned, raised>>

api == <<request, response, db, handled>>

calls == <<rounds_up, history, threads>>

modules == <<lha_rates, items_db, users_db>>

vars == <<engine, api, calls, lookup, modules>>

(* ------------------------------------------------------------------ *)
(* Units and Python values                                             *)
(* ------------------------------------------------------------------ *)

\* Units per penny: the resolution of round(x, 2) is 100 units.
Cent == 100

\* The amount pounds.pence in units.
GBP(pounds, pence) == (pounds * 100 + pence) * Cent

\* Optional[T]: None is the empty sequence, a present value v is <<v>>.
None == <<>>

Some(v) == <<v>>

IsNone(x) == x = None

Val(x) == x[1]

Min(a, b) == IF a <= b THEN a ELSE b

Max(a, b) == IF a >= b THEN a ELSE b

\* x * fraction for a two-decimal fraction given in hundredths (0.85 is 85).
\* Split so that the product of a large amount stays within TLC's integers;
\* exact whenever x is a whole number of pence.
Mul(x, hundredths) ==
    (x \div Cent) * hundredths + ((x % Cent) * hundredths) \div Cent

\* x lies exactly half way between two pennies.
IsHalf(x) == x % Cent = Cent \div 2

\* round(x, 2): the nearest penny; at an exact half, up iff `up`.
round(x, up) ==
    LET q == x \div Cent
        r == x % Cent
    IN  IF r > Cent \div 2 \/ (r = Cent \div 2 /\ up)
        THEN (q + 1) * Cent
        ELSE q * Cent

(* ------------------------------------------------------------------ *)
(* UCRates                                                             *)
(* ------------------------------------------------------------------ *)

UCRates ==
    [ STANDARD_ALLOWANCE |->
          [ single_under_25 |-> GBP(338, 58),
            single_25_plus  |-> GBP(424, 90),
            joint_under_25  |-> GBP(528, 34),
            joint_25_plus   |-> GBP(666, 97) ],
      FIRST_CHILD_ELEMENT             |-> GBP(284, 89),
      ADDITIONAL_CHILD_ELEMENT        |-> GBP(237, 5),
      DISABLED_CHILD_ADDITION         |-> GBP(137, 45),
      CHILDCARE_PERCENTAGE            |-> 85,
      CHILDCARE_MAX_ONE_CHILD         |-> GBP(175, 0),
      CHILDCARE_MAX_TWO_PLUS          |-> GBP(300, 0),
      EARNINGS_TAPER                  |-> 55,
      WORK_ALLOWANCE_WITH_CHILDREN    |-> GBP(290, 0),
      WORK_ALLOWANCE_WITHOUT_CHILDREN |-> GBP(0, 0),
      WORK_ABILITY_ELEMENT            |-> GBP(134, 88),
      WORK_AND_ACTIVITY_ELEMENT       |-> GBP(285, 58),
      CARER_ELEMENT                   |-> GBP(163, 44) ]

(* ------------------------------------------------------------------ *)
(* UCCalculator: the element calculators                               *)
(* ------------------------------------------------------------------ *)

\* A method either returns a value or raises.
Return(v) == [raised |-> "", value |-> Some(v)]

Raise(e) == [raised |-> e, value |-> None]

\* Python's `partner_age or claimant_age`: the left operand unless it is
\* falsy (None or 0).
Or(x, y) == IF IsNone(x) \/ Val(x) = 0 THEN y ELSE Val(x)

\* _calculate_standard_allowance deciding the joint band by the older partner.
standard_allowance_by_older(claimant_type, claimant_age, partner_age) ==
    IF claimant_type = "single"
    THEN IF claimant_age < 25
         THEN Return(rates.STANDARD_ALLOWANCE.single_under_25)
         ELSE Return(rates.STANDARD_ALLOWANCE.single_25_plus)
    ELSE IF claimant_type = "joint"
    THEN LET max_age == Max(claimant_age, Or(partner_age, claimant_age))
         IN  IF max_age < 25
             THEN Return(rates.STANDARD_ALLOWANCE.joint_under_25)
             ELSE Return(rates.STANDARD_ALLOWANCE.joint_25_plus)
    ELSE Raise("ValueError")

\* _calculate_standard_allowance taking every arrangement but single as joint.
standard_allowance_no_raise(claimant_type, claimant_age, partner_age) ==
    IF claimant_type = "single"
    THEN IF claimant_age < 25
         THEN Return(rates.STANDARD_ALLOWANCE.single_under_25)
         ELSE Return(rates.STANDARD_ALLOWANCE.single_25_plus)
    ELSE LET min_age == Min(claimant_age, Or(partner_age, claimant_age))
         IN  IF min_age < 25
             THEN Return(rates.STANDARD_ALLOWANCE.joint_under_25)
             ELSE Return(rates.STANDARD_ALLOWANCE.joint_25_plus)

calculate_standard_allowance(claimant_type, claimant_age, partner_age) ==
    IF claimant_type = "single"
    THEN IF claimant_age < 25
         THEN Return(rates.STANDARD_ALLOWANCE.single_under_25)
         ELSE Return(rates.STANDARD_ALLOWANCE.single_25_plus)
    ELSE IF claimant_type = "joint"
    THEN LET min_age == Min(claimant_age, Or(partner_age, claimant_age))
         IN  IF min_age < 25
             THEN Return(rates.STANDARD_ALLOWANCE.joint_under_25)
             ELSE Return(rates.STANDARD_ALLOWANCE.joint_25_plus)
    ELSE Raise("ValueError")

\* _calculate_housing_element taking the greater of rent and rate.
housing_element_greater(monthly_rent, lha_rate) ==
    IF IsNone(lha_rate)
    THEN monthly_rent
    ELSE Max(monthly_rent, Val(lha_rate))

calculate_housing_element(monthly_rent, lha_rate) ==
    IF IsNone(lha_rate)
    THEN monthly_rent
    ELSE Min(monthly_rent, Val(lha_rate))

\* child.get("is_disabled", False)
get_is_disabled(child) ==
    IF "is_disabled" \in DOMAIN child THEN child.is_disabled ELSE FALSE

\* The loop of _calculate_child_element over children[1..idx] (idx counts
\* from 1 here; Python's idx == 0 is the first position).
RECURSIVE child_loop(_, _)
child_loop(children, idx) ==
    IF idx = 0
    THEN 0
    ELSE child_loop(children, idx - 1)
         + (IF idx = 1
            THEN rates.FIRST_CHILD_ELEMENT
            ELSE rates.ADDITIONAL_CHILD_ELEMENT)
         + (IF get_is_disabled(children[idx])
            THEN rates.DISABLED_CHILD_ADDITION
            ELSE 0)

\* The loop with the disabled addition replacing the base rate.
RECURSIVE child_loop_replacing(_, _)
child_loop_replacing(children, idx) ==
    IF idx = 0
    THEN 0
    ELSE child_loop_replacing(children, idx - 1)
         + (IF get_is_disabled(children[idx])
            THEN rates.DISABLED_CHILD_ADDITION
            ELSE IF idx = 1
            THEN rates.FIRST_CHILD_ELEMENT
            ELSE rates.ADDITIONAL_CHILD_ELEMENT)

child_element_replacing(children) ==
    IF children = <<>>
    THEN 0
    ELSE child_loop_replacing(children, Len(children))

calculate_child_element(children) ==
    IF children = <<>>
    THEN 0
    ELSE child_loop(children, Len(children))

\* _calculate_childcare_element with the two-or-more cap from three children.
childcare_element_cap_from_three(costs, num_children) ==
    IF costs <= 0 \/ num_children = 0
    THEN 0
    ELSE LET max_costs == IF num_children > 2
                          THEN rates.CHILDCARE_MAX_TWO_PLUS
                          ELSE rates.CHILDCARE_MAX_ONE_CHILD
             eligible_costs == Min(costs, max_costs)
         IN  Mul(eligible_costs, rates.CHILDCARE_PERCENTAGE)

calculate_childcare_element(costs, num_children) ==
    IF costs <= 0 \/ num_children = 0
    THEN 0
    ELSE LET max_costs == IF num_children >= 2
                          THEN rates.CHILDCARE_MAX_TWO_PLUS
                          ELSE rates.CHILDCARE_MAX_ONE_CHILD
             eligible_costs == Min(costs, max_costs)
         IN  Mul(eligible_costs, rates.CHILDCARE_PERCENTAGE)

\* _get_work_allowance gated by the has_work_allowance argument.
work_allowance_if_flagged(claimant_type, has_work_allowance, num_children, has_disability, is_carer) ==
    IF ~has_work_allowance
    THEN 0
    ELSE IF ~(num_children > 0 \/ has_disability \/ is_carer)
    THEN 0
    ELSE rates.WORK_ALLOWANCE_WITH_CHILDREN

get_work_allowance(claimant_type, has_work_allowance, num_children, has_disability, is_carer) ==
    IF ~(num_children > 0 \/ has_disability \/ is_carer)
    THEN 0
    ELSE IF num_children > 0
    THEN rates.WORK_ALLOWANCE_WITH_CHILDREN
    ELSE rates.WORK_ALLOWANCE_WITH_CHILDREN

\* _calculate_earnings_deduction on the claimant's earnings alone.
earnings_deduction_claimant_only(monthly_earnings, partner_monthly_earnings, work_allowance) ==
    IF monthly_earnings <= work_allowance
    THEN 0
    ELSE Mul(monthly_earnings - work_allowance, rates.EARNINGS_TAPER)

\* _calculate_earnings_deduction tapering below the work allowance as above it.
earnings_deduction_untested(monthly_earnings, partner_monthly_earnings, work_allowance) ==
    LET total_earnings == monthly_earnings + partner_monthly_earnings
        earnings_above_allowance == total_earnings - work_allowance
    IN  Mul(earnings_above_allowance, rates.EARNINGS_TAPER)

calculate_earnings_deduction(monthly_earnings, partner_monthly_earnings, work_allowance) ==
    LET total_earnings == monthly_earnings + partner_monthly_earnings
    IN  IF total_earnings <= work_allowance
        THEN 0
        ELSE LET earnings_above_allowance == total_earnings - work_allowance
             IN  Mul(earnings_above_allowance, rates.EARNINGS_TAPER)

(* ------------------------------------------------------------------ *)
(* UCCalculator.calculate                                              *)
(* ------------------------------------------------------------------ *)

\* total_entitlement = max(0.0, gross_entitlement - earnings_deduction),
\* without the floor.
final_entitlement_unfloored(gross_entitlement, earnings_deduction) ==
    gross_entitlement - earnings_deduction

\* total_entitlement = max(0.0, gross_entitlement), the deduction forgotten.
final_entitlement_undeducted(gross_entitlement, earnings_deduction) ==
    Max(0, gross_entitlement)

\* total_entitlement = max(0.0, gross_entitlement - earnings_deduction)
final_entitlement(gross_entitlement, earnings_deduction) ==
    Max(0, gross_entitlement - earnings_deduction)

\* The locals of calculate with the carer element withheld from a claimant
\* who has the disability element.
calculate_locals_one_addition(a, sa) ==
    LET children  == a.children
        housing   == calculate_housing_element(a.monthly_rent, a.lha_rate)
        child     == calculate_child_element(children)
        childcare == calculate_childcare_element(a.monthly_childcare_costs,
                                                 Len(children))
        disability == IF a.has_disability
                      THEN rates.WORK_ABILITY_ELEMENT ELSE 0
        carer     == IF a.is_carer /\ ~a.has_disability
                     THEN rates.CARER_ELEMENT ELSE 0
        gross     == sa + housing + child + childcare + disability + carer
        wa        == get_work_allowance(a.claimant_type, a.has_work_allowance,
                                        Len(children), a.has_disability,
                                        a.is_carer)
        deduction == calculate_earnings_deduction(a.monthly_earnings,
                                                  a.partner_monthly_earnings,
                                                  wa)
    IN  [ standard_allowance |-> sa,
          housing_element    |-> housing,
          child_element      |-> child,
          childcare_element  |-> childcare,
          disability_element |-> disability,
          carer_element      |-> carer,
          gross_entitlement  |-> gross,
          work_allowance     |-> wa,
          total_earnings     |-> a.monthly_earnings + a.partner_monthly_earnings,
          earnings_deduction |-> deduction,
          total_entitlement  |-> final_entitlement(gross, deduction) ]

\* The locals of calculate with the carer element left out of the gross
\* entitlement.
calculate_locals_gross_without_carer(a, sa) ==
    LET children  == a.children
        housing   == calculate_housing_element(a.monthly_rent, a.lha_rate)
        child     == calculate_child_element(children)
        childcare == calculate_childcare_element(a.monthly_childcare_costs,
                                                 Len(children))
        disability == IF a.has_disability
                      THEN rates.WORK_ABILITY_ELEMENT ELSE 0
        carer     == IF a.is_carer THEN rates.CARER_ELEMENT ELSE 0
        gross     == sa + housing + child + childcare + disability
        wa        == get_work_allowance(a.claimant_type, a.has_work_allowance,
                                        Len(children), a.has_disability,
                                        a.is_carer)
        deduction == calculate_earnings_deduction(a.monthly_earnings,
                                                  a.partner_monthly_earnings,
                                                  wa)
    IN  [ standard_allowance |-> sa,
          housing_element    |-> housing,
          child_element      |-> child,
          childcare_element  |-> childcare,
          disability_element |-> disability,
          carer_element      |-> carer,
          gross_entitlement  |-> gross,
          work_allowance     |-> wa,
          total_earnings     |-> a.monthly_earnings + a.partner_monthly_earnings,
          earnings_deduction |-> deduction,
          total_entitlement  |-> final_entitlement(gross, deduction) ]

\* The unrounded locals of calculate for arguments a whose arrangement the
\* standard-allowance stage accepted with the value sa.
calculate_locals(a, sa) ==
    LET children  == a.children
        housing   == calculate_housing_element(a.monthly_rent, a.lha_rate)
        child     == calculate_child_element(children)
        childcare == calculate_childcare_element(a.monthly_childcare_costs,
                                                 Len(children))
        disability == IF a.has_disability
                      THEN rates.WORK_ABILITY_ELEMENT ELSE 0
        carer     == IF a.is_carer THEN rates.CARER_ELEMENT ELSE 0
        gross     == sa + housing + child + childcare + disability + carer
        wa        == get_work_allowance(a.claimant_type, a.has_work_allowance,
                                        Len(children), a.has_disability,
                                        a.is_carer)
        deduction == calculate_earnings_deduction(a.monthly_earnings,
                                                  a.partner_monthly_earnings,
                                                  wa)
    IN  [ standard_allowance |-> sa,
          housing_element    |-> housing,
          child_element      |-> child,
          childcare_element  |-> childcare,
          disability_element |-> disability,
          carer_element      |-> carer,
          gross_entitlement  |-> gross,
          work_allowance     |-> wa,
          total_earnings     |-> a.monthly_earnings + a.partner_monthly_earnings,
          earnings_deduction |-> deduction,
          total_entitlement  |-> final_entitlement(gross, deduction) ]

\* The names of the eleven fields of the returned dictionary.
Fields ==
    { "standard_allowance", "housing_element", "child_element",
      "childcare_element", "disability_element", "carer_element",
      "gross_entitlement", "work_allowance", "total_earnings",
      "earnings_deduction", "total_entitlement" }

\* The returned dictionary with the total taken from the rounded gross and
\* the rounded deduction.
breakdown_total_of_rounded(locals, hu) ==
    [f \in Fields |->
        IF f = "total_entitlement"
        THEN Max(0, round(locals.gross_entitlement, "gross_entitlement" \in hu)
                    - round(locals.earnings_deduction,
                            "earnings_deduction" \in hu))
        ELSE round(locals[f], f \in hu)]

\* The returned dictionary: every local rounded at emission.  hu is the set
\* of fields whose exact half rounds up.
breakdown(locals, hu) ==
    [f \in Fields |-> round(locals[f], f \in hu)]

\* calculate(...): the outcome (raised, locals at return, returned value).
calculate(a, hu) ==
    LET sa == calculate_standard_allowance(a.claimant_type, a.claimant_age,
                                           a.partner_age)
    IN  IF sa.raised # ""
        THEN [raised |-> sa.raised, frame |-> None, returned |-> None]
        ELSE LET locals == calculate_locals(a, Val(sa.value))
             IN  [ raised   |-> "",
                   frame    |-> Some(locals),
                   returned |-> Some(breakdown(locals, hu)) ]

\* The fields whose unrounded value is an exact half penny for arguments a.
Halves(a) ==
    LET r == calculate(a, {})
    IN  IF IsNone(r.frame)
        THEN {}
        ELSE {f \in Fields : IsHalf(Val(r.frame)[f])}

\* The sets of fields whose exact half rounds up that one call can show.
\* With no deduction, total_entitlement = max(0.0, gross_entitlement - 0.0)
\* is the very number gross_entitlement, so both round the same way.
Directions(a) ==
    LET r == calculate(a, {})
    IN  {hu \in SUBSET Halves(a) :
            \/ IsNone(r.frame)
            \/ Val(r.frame).earnings_deduction # 0
            \/ ("total_entitlement" \in hu <=> "gross_entitlement" \in hu)}

(* ------------------------------------------------------------------ *)
(* LHAService                                                          *)
(* ------------------------------------------------------------------ *)

DEFAULT_LHA_RATES ==
    [ E92000001 |-> [ brma_name      |-> "North Yorkshire",
                      local_authority |-> "North Yorkshire Council",
                      studio_rate    |-> GBP(600, 0),
                      one_bed_rate   |-> GBP(700, 0),
                      two_bed_rate   |-> GBP(850, 0),
                      three_bed_rate |-> GBP(1000, 0),
                      four_bed_rate  |-> GBP(1200, 0) ],
      E08000032 |-> [ brma_name      |-> "Bradford",
                      local_authority |-> "Bradford Council",
                      studio_rate    |-> GBP(550, 0),
                      one_bed_rate   |-> GBP(650, 0),
                      two_bed_rate   |-> GBP(800, 0),
                      three_bed_rate |-> GBP(950, 0),
                      four_bed_rate  |-> GBP(1150, 0) ],
      E08000016 |-> [ brma_name      |-> "Birmingham",
                      local_authority |-> "Birmingham City Council",
                      studio_rate    |-> GBP(550, 0),
                      one_bed_rate   |-> GBP(700, 0),
                      two_bed_rate   |-> GBP(850, 0),
                      three_bed_rate |-> GBP(1000, 0),
                      four_bed_rate  |-> GBP(1200, 0) ],
      E09000002 |-> [ brma_name      |-> "London",
                      local_authority |-> "Barnet Council",
                      studio_rate    |-> GBP(950, 0),
                      one_bed_rate   |-> GBP(1100, 0),
                      two_bed_rate   |-> GBP(1350, 0),
                      three_bed_rate |-> GBP(1600, 0),
                      four_bed_rate  |-> GBP(1900, 0) ] ]

\* get_lha_rate paying the four-bed rate for exactly four bedrooms.
get_lha_rate_up_to_four(brma_code, bedrooms) ==
    IF IsNone(brma_code) \/ Val(brma_code) = ""
       \/ Val(brma_code) \notin DOMAIN lha_rates
    THEN None
    ELSE LET lha == lha_rates[Val(brma_code)]
         IN  IF bedrooms = 0 THEN Some(lha.studio_rate)
             ELSE IF bedrooms = 1 THEN Some(lha.one_bed_rate)
             ELSE IF bedrooms = 2 THEN Some(lha.two_bed_rate)
             ELSE IF bedrooms = 3 THEN Some(lha.three_bed_rate)
             ELSE IF bedrooms = 4 THEN Some(lha.four_bed_rate)
             ELSE None

\* LHAService.get_lha_rate(brma_code, bedrooms): brma_code is Optional[str].
get_lha_rate(brma_code, bedrooms) ==
    IF IsNone(brma_code) \/ Val(brma_code) = ""
       \/ Val(brma_code) \notin DOMAIN lha_rates
    THEN None
    ELSE LET lha == lha_rates[Val(brma_code)]
         IN  IF bedrooms = 0 THEN Some(lha.studio_rate)
             ELSE IF bedrooms = 1 THEN Some(lha.one_bed_rate)
             ELSE IF bedrooms = 2 THEN Some(lha.two_bed_rate)
             ELSE IF bedrooms = 3 THEN Some(lha.three_bed_rate)
             ELSE IF bedrooms >= 4 THEN Some(lha.four_bed_rate)
             ELSE None

\* LHAService.get_lha_rates_for_brma(brma_code)
get_lha_rates_for_brma(brma_code) ==
    IF IsNone(brma_code) \/ Val(brma_code) \notin DOMAIN lha_rates
    THEN None
    ELSE Some(lha_rates[Val(brma_code)])

(* ------------------------------------------------------------------ *)
(* POST /api/uc/calculate                                              *)
(* ------------------------------------------------------------------ *)

\* The lookup falling back to the rates of E92000001 for an area not found.
lookup_lha_rate_or_default(req) ==
    IF IsNone(req.brma_code) \/ Val(req.brma_code) = ""
    THEN None
    ELSE IF IsNone(get_lha_rate(req.brma_code, req.bedrooms_needed))
    THEN get_lha_rate(Some("E92000001"), req.bedrooms_needed)
    ELSE get_lha_rate(req.brma_code, req.bedrooms_needed)

\* if request.brma_code: lha_rate = LHAService.get_lha_rate(...)
lookup_lha_rate(req) ==
    IF IsNone(req.brma_code) \/ Val(req.brma_code) = ""
    THEN None
    ELSE get_lha_rate(req.brma_code, req.bedrooms_needed)

\* The keyword arguments with the childcare cost passed only when the
\* request sets has_childcare_costs.
calculate_kwargs_gated(req, lha_rate) ==
    [ claimant_type            |-> req.claimant_type,
      claimant_age             |-> req.claimant_age,
      partner_age              |-> req.partner_age,
      children                 |-> req.children,
      monthly_earnings         |-> req.monthly_earnings,
      partner_monthly_earnings |-> req.partner_monthly_earnings,
      monthly_rent             |-> req.monthly_rent,
      lha_rate                 |-> lha_rate,
      has_work_allowance       |-> req.has_work_allowance,
      monthly_childcare_costs  |-> IF req.has_childcare_costs
                                   THEN req.monthly_childcare_costs ELSE 0,
      has_disability           |-> req.has_disability,
      is_carer                 |-> req.is_carer ]

\* The keyword arguments the handler passes to calculator.calculate;
\* request.has_childcare_costs is not among them.
calculate_kwargs(req, lha_rate) ==
    [ claimant_type            |-> req.claimant_type,
      claimant_age             |-> req.claimant_age,
      partner_age              |-> req.partner_age,
      children                 |-> req.children,
      monthly_earnings         |-> req.monthly_earnings,
      partner_monthly_earnings |-> req.partner_monthly_earnings,
      monthly_rent             |-> req.monthly_rent,
      lha_rate                 |-> lha_rate,
      has_work_allowance       |-> req.has_work_allowance,
      monthly_childcare_costs  |-> req.monthly_childcare_costs,
      has_disability           |-> req.has_disability,
      is_carer                 |-> req.is_carer ]

\* calculator.calculate(**kw) as the handler calls it.  The schema admits
\* partner_monthly_earnings = None (Optional[float]); once the arrangement
\* is accepted, the sum monthly_earnings + None in
\* _calculate_earnings_deduction raises TypeError.
calculate_call(kw, hu) ==
    LET sa == calculate_standard_allowance(kw.claimant_type, kw.claimant_age,
                                           kw.partner_age)
    IN  IF sa.raised # ""
        THEN [raised |-> sa.raised, frame |-> None, returned |-> None]
        ELSE IF IsNone(kw.partner_monthly_earnings)
        THEN [raised |-> "TypeError", frame |-> None, returned |-> None]
        ELSE calculate([kw EXCEPT !.partner_monthly_earnings = Val(@)], hu)

\* The fields at an exact half penny for the handler's call.
call_halves(kw) ==
    IF IsNone(kw.partner_monthly_earnings)
    THEN {}
    ELSE Halves([kw EXCEPT !.partner_monthly_earnings = Val(@)])

\* The result columns of a row and the amounts of a response.
ResultFields ==
    { "standard_allowance", "housing_element", "child_element",
      "childcare_element", "disability_element", "carer_element",
      "earnings_deduction", "total_entitlement" }

\* db_claim = UCClaim(claim_reference=..., <request fields>, <results>);
\* the primary key id is assigned by the table.
UCClaim(id, claim_reference, req, calculation_result) ==
    [ id                 |-> id,
      claim_reference    |-> claim_reference,
      request            |-> req,
      results            |-> [f \in ResultFields |-> calculation_result[f]],
      calculated_at      |-> "utcnow" ]

\* UCCalculationResult(claim_reference=..., ...)
UCCalculationResult(claim_reference, req, calculation_result) ==
    [ claim_reference    |-> claim_reference,
      claimant_type      |-> req.claimant_type,
      claimant_age       |-> req.claimant_age,
      results            |-> [f \in ResultFields |-> calculation_result[f]],
      assessment_month   |-> req.assessment_month,
      calculated_at      |-> "today" ]

\* UCCalculationResult.from_orm(claim): the fields of the schema read from
\* the attributes of the row of the same names.
from_orm(claim) ==
    [ claim_reference    |-> claim.claim_reference,
      claimant_type      |-> claim.request.claimant_type,
      claimant_age       |-> claim.request.claimant_age,
      results            |-> claim.results,
      assessment_month   |-> claim.request.assessment_month,
      calculated_at      |-> claim.calculated_at ]

\* str.upper() on one character of a hexadecimal string.
UpperChar(c) ==
    CASE c = "a" -> "A" [] c = "b" -> "B" [] c = "c" -> "C"
      [] c = "d" -> "D" [] c = "e" -> "E" [] c = "f" -> "F"
      [] OTHER -> c

RECURSIVE upper(_)
\* str.upper()
upper(s) ==
    IF Len(s) = 0
    THEN ""
    ELSE UpperChar(SubSeq(s, 1, 1)) \o upper(SubSeq(s, 2, Len(s)))

\* f"UC-{uuid.uuid4().hex[:8].upper()}" for uuid.uuid4().hex = hex
new_claim_reference(hex) == "UC-" \o upper(SubSeq(hex, 1, 8))

\* A table without the unique constraint on claim_reference.
reference_stored_unchecked(claim_reference) == FALSE

\* The column claim_reference is unique: the commit of a row whose
\* reference is already stored fails.  Of the constraints of the table this
\* is the only one a validated request can break that the declarations of
\* models/uc_calculation.py alone decide; the foreign key of brma_code
\* depends on the contents of lha_rates, which no handler here writes, and
\* is left out.
reference_stored(claim_reference) ==
    \E i \in 1..Len(db) : db[i].claim_reference = claim_reference

(* ------------------------------------------------------------------ *)
(* Inputs                                                              *)
(* ------------------------------------------------------------------ *)

\* Longest dependents list drawn.
MaxChildren == 2

ClaimantTypes == {"single", "joint", "couple"}

ClaimantAges == {24, 25}

PartnerAges == {None, Some(16), Some(25)}

\* Dictionaries of the children list.
ChildDicts ==
    { [age |-> 8, is_disabled |-> FALSE],
      [age |-> 5, is_disabled |-> TRUE] }

ChildLists == UNION {[1..n -> ChildDicts] : n \in 0..MaxChildren}

\* With partner earnings the combined earnings are 0, 0.10, 290.00, 290.10,
\* 405.20, 405.30, 5000.00 and 5000.10: below, at, above and far above the
\* work allowance of 290.00.  55% of (405.20 - 290.00) is a whole number of
\* pence.
Earnings == {GBP(0, 0), GBP(290, 0), GBP(405, 20), GBP(5000, 0)}

PartnerEarnings == {GBP(0, 0), GBP(0, 10)}

Rents == {GBP(500, 0), GBP(900, 0)}

LhaRates == {None, Some(GBP(700, 0))}

\* Nothing, below both caps (85% of it is an exact half penny), above both.
ChildcareCosts == {GBP(0, 0), GBP(150, 10), GBP(400, 0)}

Arguments ==
    [ claimant_type            : ClaimantTypes,
      claimant_age             : ClaimantAges,
      partner_age              : PartnerAges,
      children                 : ChildLists,
      monthly_earnings         : Earnings,
      partner_monthly_earnings : PartnerEarnings,
      monthly_rent             : Rents,
      lha_rate                 : LhaRates,
      has_work_allowance       : BOOLEAN,
      monthly_childcare_costs  : ChildcareCosts,
      has_disability           : BOOLEAN,
      is_carer                 : BOOLEAN ]

\* Dependents lists of a request: non-disabled dependents only.
ApiChildLists ==
    {c \in ChildLists : \A i \in 1..Len(c) : ~c[i].is_disabled}

\* Samples of uuid.uuid4().hex, 32 lower-case hexadecimal digits; the first
\* two agree in their first eight digits.
Uuid4Hex ==
    { "0a1b2c3d5e6f4a7b8c9d0e1f2a3b4c5d",
      "0a1b2c3d99884776a5544332211000ff",
      "9f8e7d6c5b4a4938a7160504f3e2d1c0" }

\* Nothing, below both caps, above both.
ApiChildcareCosts == {GBP(0, 0), GBP(150, 0), GBP(400, 0)}

\* Bodies that pass the validation of UCCalculationRequest.
ApiRequests ==
    [ claimant_type            : {"single", "joint"},
      claimant_age             : {30},
      partner_age              : {None},
      children                 : ApiChildLists,
      housing_type             : {"renter"},
      bedrooms_needed          : {1},
      monthly_rent             : {GBP(1200, 0)},
      brma_code                : {None, Some("E09000002"), Some("INVALID")},
      monthly_earnings         : {GBP(0, 0)},
      partner_monthly_earnings : {None, Some(GBP(0, 0))},
      has_work_allowance       : {FALSE},
      has_childcare_costs      : BOOLEAN,
      monthly_childcare_costs  : ApiChildcareCosts,
      has_disability           : {FALSE},
      is_carer                 : {FALSE},
      assessment_month         : {"2026-02-01"} ]

\* Most requests handled in a run of the API.
MaxRequests == 1

(* ------------------------------------------------------------------ *)
(* State machine of the engine: one call of calculate                  *)
(* ------------------------------------------------------------------ *)

\* calculator = UCCalculator() holds the rate schedule; one call of calculate
\* with arguments drawn from Arguments is about to be made.
Init ==
    /\ rates = UCRates
    /\ call \in Arguments
    /\ pc = "call"
    /\ half_up = {}
    /\ frame = None
    /\ returned = None
    /\ raised = ""
    /\ request = None
    /\ response = None
    /\ db = <<>>
    /\ handled = 0
    /\ rounds_up = {}
    /\ history = <<>>
    /\ threads = <<>>
    /\ lookup = None
    /\ lha_rates = DEFAULT_LHA_RATES
    /\ items_db = <<>>
    /\ users_db = <<>>

\* calculator.calculate(**call), from entry to its return or raise.
Calculate ==
    /\ pc = "call"
    /\ \E hu \in Directions(call) :
           LET r == calculate(call, hu)
           IN  /\ half_up' = hu
               /\ frame' = r.frame
               /\ returned' = r.returned
               /\ raised' = r.raised
    /\ pc' = "done"
    /\ UNCHANGED <<rates, call>>
    /\ UNCHANGED <<api, calls, lookup, modules>>

Next == Calculate

Spec == Init /\ [][Next]_vars

(* ------------------------------------------------------------------ *)
(* State machine of the API: requests to POST /api/uc/calculate        *)
(* ------------------------------------------------------------------ *)

\* The application has started: the module-level calculator exists and the
\* table uc_claims is empty.
InitApi ==
    /\ rates = UCRates
    /\ call = None
    /\ pc = "idle"
    /\ half_up = {}
    /\ frame = None
    /\ returned = None
    /\ raised = ""
    /\ request = None
    /\ response = None
    /\ db = <<>>
    /\ handled = 0
    /\ rounds_up = {}
    /\ history = <<>>
    /\ threads = <<>>
    /\ lookup = None
    /\ lha_rates = DEFAULT_LHA_RATES
    /\ items_db = <<>>
    /\ users_db = <<>>

\* The handler calculate_uc for the validated body req; hex is what
\* uuid.uuid4().hex yields.  An exception of calculate or of the
\* commit leaves the handler and the framework answers 500.
calculate_uc(req, hex) ==
    LET lha_rate == lookup_lha_rate(req)
        kw       == calculate_kwargs(req, lha_rate)
    IN  \E hu \in SUBSET call_halves(kw) :
            LET r               == calculate_call(kw, hu)
                claim_reference == new_claim_reference(hex)
            IN  /\ request' = Some(req)
                /\ call' = Some(kw)
                /\ pc' = "done"
                /\ half_up' = hu
                /\ frame' = r.frame
                /\ returned' = r.returned
                /\ raised' = r.raised
                /\ UNCHANGED <<rates, calls, lookup, modules>>
                /\ handled' = handled + 1
                /\ IF r.raised # "" \/ reference_stored(claim_reference)
                   THEN /\ db' = db
                        /\ response' = Some([status |-> 500, body |-> None])
                   ELSE /\ db' = Append(db, UCClaim(Len(db) + 1,
                                                    claim_reference, req,
                                                    Val(r.returned)))
                        /\ response' =
                               Some([ status |-> 200,
                                      body   |-> Some(UCCalculationResult(
                                                     claim_reference, req,
                                                     Val(r.returned))) ])

NextApi ==
    /\ handled < MaxRequests
    /\ \E req \in ApiRequests : \E hex \in Uuid4Hex :
           calculate_uc(req, hex)

SpecApi == InitApi /\ [][NextApi]_vars

(* ------------------------------------------------------------------ *)
(* State machine of the claim store: POST /api/uc/calculate and        *)
(* GET /api/uc/calculation/{claim_reference}                           *)
(* ------------------------------------------------------------------ *)

\* Most calculate requests in a run of the claim store.
MaxPosts == 2

\* Bodies posted to the claim store: no dependents, one dependent, and a
\* null partner_monthly_earnings, on which calculate raises.
StoreRequests ==
    {req \in ApiRequests :
        /\ req.claimant_type = "single"
        /\ IsNone(req.brma_code)
        /\ ~req.has_childcare_costs
        /\ req.monthly_childcare_costs = GBP(0, 0)
        /\ Len(req.children) <= 1
        /\ IsNone(req.partner_monthly_earnings) => req.children = <<>>}

\* References asked for: those the samples of uuid4 lead to, one that is
\* well-formed and never generated, and one that is not a reference.
RequestedReferences ==
    {new_claim_reference(hex) : hex \in Uuid4Hex}
        \cup {"UC-00000000", "latest"}

\* db.query(UCClaim).first(): the first row whatever its reference.
get_calculation_unfiltered(claim_reference) ==
    /\ request' = Some([claim_reference |-> claim_reference])
    /\ pc' = "retrieved"
    /\ response' =
           IF Len(db) = 0
           THEN Some([status |-> 404, body |-> None])
           ELSE Some([status |-> 200, body |-> Some(from_orm(db[1]))])
    /\ UNCHANGED <<rates, call, half_up, frame, returned, raised>>
    /\ UNCHANGED <<db, handled, calls, lookup, modules>>

\* The handler get_calculation: the first row with the reference, or 404.
get_calculation(claim_reference) ==
    LET found == {i \in 1..Len(db) :
                     db[i].claim_reference = claim_reference}
    IN  /\ request' = Some([claim_reference |-> claim_reference])
        /\ pc' = "retrieved"
        /\ response' =
               IF found = {}
               THEN Some([status |-> 404, body |-> None])
               ELSE LET first == CHOOSE i \in found :
                                     \A j \in found : i <= j
                    IN  Some([ status |-> 200,
                               body   |-> Some(from_orm(db[first])) ])
        /\ UNCHANGED <<rates, call, half_up, frame, returned, raised>>
        /\ UNCHANGED <<db, handled, calls, lookup, modules>>

PostCalculate ==
    /\ handled < MaxPosts
    /\ \E req \in StoreRequests : \E hex \in Uuid4Hex :
           calculate_uc(req, hex)

GetCalculation ==
    \E claim_reference \in RequestedReferences :
        get_calculation(claim_reference)

NextStore == PostCalculate \/ GetCalculation

SpecStore == InitApi /\ [][NextStore]_vars

(* ------------------------------------------------------------------ *)
(* State machine of the items store and the users store                *)
(* ------------------------------------------------------------------ *)

\* Most records a store holds when a record is created.
MaxRecords == 2

\* A Python dict is the sequence of its <<key, value>> entries in insertion
\* order.  The keys of d.
Keys(d) == {d[i].key : i \in 1..Len(d)}

\* d[k]
GetItem(d, k) == d[CHOOSE i \in 1..Len(d) : d[i].key = k].value

\* d[k] = v: a present key keeps its place, a new key goes last.
SetItem(d, k, v) ==
    IF k \in Keys(d)
    THEN [i \in 1..Len(d) |->
             IF d[i].key = k THEN [key |-> k, value |-> v] ELSE d[i]]
    ELSE Append(d, [key |-> k, value |-> v])

\* del d[k]
DelItem(d, k) ==
    LET keep(e) == e.key # k
    IN  SelectSeq(d, keep)

\* list(d.values())
Values(d) == [i \in 1..Len(d) |-> d[i].value]

\* data = body.model_dump(); data["id"] = id
WithId(data, id) ==
    [f \in DOMAIN data \cup {"id"} |-> IF f = "id" THEN id ELSE data[f]]

\* Bodies that pass the validation of ItemCreate.
ItemCreates ==
    { [ title |-> "kettle", description |-> None, price |-> GBP(9, 99),
        owner_id |-> None ],
      [ title |-> "kettle", description |-> None, price |-> GBP(19, 99),
        owner_id |-> None ] }

\* Bodies that pass the validation of UserCreate.
UserCreates ==
    { [ email |-> "ann@example.com", username |-> "ann",
        full_name |-> None, password |-> "secret" ] }

\* Identifiers of a path: those a store of MaxRecords records can hold and
\* one beyond.
RecordIds == 1..(MaxRecords + 1)

\* The application has started: both dictionaries are empty.
InitStores ==
    /\ rates = UCRates
    /\ call = None
    /\ pc = "idle"
    /\ half_up = {}
    /\ frame = None
    /\ returned = None
    /\ raised = ""
    /\ request = None
    /\ response = None
    /\ db = <<>>
    /\ handled = 0
    /\ rounds_up = {}
    /\ history = <<>>
    /\ threads = <<>>
    /\ lookup = None
    /\ lha_rates = DEFAULT_LHA_RATES
    /\ items_db = <<>>
    /\ users_db = <<>>

\* What a handler of the two routers leaves alone besides the dictionaries.
served == <<rates, call, half_up, frame, returned, raised, db, handled>>

\* create_item: the identifier is the number of items stored plus one.
create_item(item) ==
    LET item_id   == Len(items_db) + 1
        item_data == WithId(item, item_id)
    IN  /\ items_db' = SetItem(items_db, item_id, item_data)
        /\ request' = Some([handler |-> "create_item", id |-> None,
                            body |-> Some(item)])
        /\ response' = Some(Return(item_data))
        /\ pc' = "done"
        /\ UNCHANGED <<served, calls, lookup, lha_rates, users_db>>

\* list_items
list_items ==
    /\ request' = Some([handler |-> "list_items", id |-> None,
                        body |-> None])
    /\ response' = Some(Return(Values(items_db)))
    /\ pc' = "done"
    /\ UNCHANGED <<served, calls, lookup, modules>>

\* get_item
get_item(item_id) ==
    /\ request' = Some([handler |-> "get_item", id |-> Some(item_id),
                        body |-> None])
    /\ response' = IF item_id \notin Keys(items_db)
                   THEN Some(Raise("HTTPException 404"))
                   ELSE Some(Return(GetItem(items_db, item_id)))
    /\ pc' = "done"
    /\ UNCHANGED <<served, calls, lookup, modules>>

\* update_item
update_item(item_id, item) ==
    /\ request' = Some([handler |-> "update_item", id |-> Some(item_id),
                        body |-> Some(item)])
    /\ IF item_id \notin Keys(items_db)
       THEN /\ response' = Some(Raise("HTTPException 404"))
            /\ items_db' = items_db
       ELSE LET item_data == WithId(item, item_id)
            IN  /\ items_db' = SetItem(items_db, item_id, item_data)
                /\ response' = Some(Return(item_data))
    /\ pc' = "done"
    /\ UNCHANGED <<served, calls, lookup, lha_rates, users_db>>

\* delete_item
delete_item(item_id) ==
    /\ request' = Some([handler |-> "delete_item", id |-> Some(item_id),
                        body |-> None])
    /\ IF item_id \notin Keys(items_db)
       THEN /\ response' = Some(Raise("HTTPException 404"))
            /\ items_db' = items_db
       ELSE /\ items_db' = DelItem(items_db, item_id)
            /\ response' = Some(Return(None))
    /\ pc' = "done"
    /\ UNCHANGED <<served, calls, lookup, lha_rates, users_db>>

\* create_user: the identifier is the number of users stored plus one.
create_user(user) ==
    LET user_id   == Len(users_db) + 1
        user_data == WithId(user, user_id)
    IN  /\ users_db' = SetItem(users_db, user_id, user_data)
        /\ request' = Some([handler |-> "create_user", id |-> None,
                            body |-> Some(user)])
        /\ response' = Some(Return(user_data))
        /\ pc' = "done"
        /\ UNCHANGED <<served, calls, lookup, lha_rates, items_db>>

\* list_users
list_users ==
    /\ request' = Some([handler |-> "list_users", id |-> None,
                        body |-> None])
    /\ response' = Some(Return(Values(users_db)))
    /\ pc' = "done"
    /\ UNCHANGED <<served, calls, lookup, modules>>

\* get_user
get_user(user_id) ==
    /\ request' = Some([handler |-> "get_user", id |-> Some(user_id),
                        body |-> None])
    /\ response' = IF user_id \notin Keys(users_db)
                   THEN Some(Raise("HTTPException 404"))
                   ELSE Some(Return(GetItem(users_db, user_id)))
    /\ pc' = "done"
    /\ UNCHANGED <<served, calls, lookup, modules>>

\* update_user
update_user(user_id, user) ==
    /\ request' = Some([handler |-> "update_user", id |-> Some(user_id),
                        body |-> Some(user)])
    /\ IF user_id \notin Keys(users_db)
       THEN /\ response' = Some(Raise("HTTPException 404"))
            /\ users_db' = users_db
       ELSE LET user_data == WithId(user, user_id)
            IN  /\ users_db' = SetItem(users_db, user_id, user_data)
                /\ response' = Some(Return(user_data))
    /\ pc' = "done"
    /\ UNCHANGED <<served, calls, lookup, lha_rates, items_db>>

\* delete_user
delete_user(user_id) ==
    /\ request' = Some([handler |-> "delete_user", id |-> Some(user_id),
                        body |-> None])
    /\ IF user_id \notin Keys(users_db)
       THEN /\ response' = Some(Raise("HTTPException 404"))
            /\ users_db' = users_db
       ELSE /\ users_db' = DelItem(users_db, user_id)
            /\ response' = Some(Return(None))
    /\ pc' = "done"
    /\ UNCHANGED <<served, calls, lookup, lha_rates, items_db>>

NextStores ==
    \/ Len(items_db) < MaxRecords /\ \E item \in ItemCreates :
           create_item(item)
    \/ list_items
    \/ \E item_id \in RecordIds : get_item(item_id)
    \/ \E item_id \in RecordIds : \E item \in ItemCreates :
           update_item(item_id, item)
    \/ \E item_id \in RecordIds : delete_item(item_id)
    \/ Len(users_db) < MaxRecords /\ \E user \in UserCreates :
           create_user(user)
    \/ list_users
    \/ \E user_id \in RecordIds : get_user(user_id)
    \/ \E user_id \in RecordIds : \E user \in UserCreates :
           update_user(user_id, user)
    \/ \E user_id \in RecordIds : delete_user(user_id)

SpecStores == InitStores /\ [][NextStores]_vars

(* ------------------------------------------------------------------ *)
(* State machine of the MCP server: one call of call_tool              *)
(* ------------------------------------------------------------------ *)

\* The arguments of a tool call are a dict; a key that is absent is None
\* here.  arguments.get(key, default)
Get(arguments, key, default) ==
    IF IsNone(arguments[key]) THEN default ELSE Val(arguments[key])

\* ToolResult(content=[TextContent(type="text", text=text)], isError=...)
ToolResult(text, isError) ==
    [content |-> <<[type |-> "text", text |-> text]>>, isError |-> isError]

\* json.dumps(obj, indent=2): the document of obj.
json_dumps(obj) == [json |-> obj]

\* What a handler hands back to call_tool: the exception it raised or the
\* result it returned, with the call of calculate it made, if any.
Handled(e, result, kw, r) ==
    [ raised   |-> e,
      result   |-> result,
      call     |-> kw,
      frame    |-> r.frame,
      returned |-> r.returned ]

\* No call of calculate was made.
NoCall == [frame |-> None, returned |-> None]

\* The dependents built from every entry of children_ages.
children_of_all_ages(arguments) ==
    LET children_ages == Get(arguments, "children_ages", <<>>)
    IN  [i \in 1..Len(children_ages) |->
            [age |-> children_ages[i], is_disabled |-> FALSE]]

\* The list children of _handle_calculate_uc: one non-disabled dependent
\* for each age of children_ages[:num_children] when num_children > 0.
children_of(arguments) ==
    LET num_children == Get(arguments, "num_children", 0)
    IN  IF num_children > 0
        THEN LET children_ages == Get(arguments, "children_ages", <<>>)
                 slice == SubSeq(children_ages, 1,
                                 Min(num_children, Len(children_ages)))
             IN  [i \in 1..Len(slice) |->
                     [age |-> slice[i], is_disabled |-> FALSE]]
        ELSE <<>>

\* The rate _handle_calculate_uc looks up when brma_code is given and not
\* empty.
lha_rate_of(arguments) ==
    IF IsNone(arguments.brma_code) \/ Val(arguments.brma_code) = ""
    THEN None
    ELSE get_lha_rate(arguments.brma_code,
                      Get(arguments, "bedrooms_needed", 1))

\* The keyword arguments of self.calculator.calculate(...) when the three
\* subscripted keys are present.
tool_kwargs(arguments) ==
    [ claimant_type            |-> Val(arguments.claimant_type),
      claimant_age             |-> Val(arguments.claimant_age),
      partner_age              |-> arguments.partner_age,
      children                 |-> children_of(arguments),
      monthly_earnings         |-> Get(arguments, "monthly_earnings", 0),
      partner_monthly_earnings |->
          Get(arguments, "partner_monthly_earnings", 0),
      monthly_rent             |-> Val(arguments.monthly_rent),
      lha_rate                 |-> lha_rate_of(arguments),
      has_work_allowance       |->
          Get(arguments, "has_work_allowance", FALSE),
      monthly_childcare_costs  |->
          Get(arguments, "monthly_childcare_costs", 0),
      has_disability           |-> Get(arguments, "has_disability", FALSE),
      is_carer                 |-> Get(arguments, "is_carer", FALSE) ]

\* arguments["claimant_type"], arguments["claimant_age"] or
\* arguments["monthly_rent"] raises KeyError.
MissingRequired(arguments) ==
    \/ IsNone(arguments.claimant_type)
    \/ IsNone(arguments.claimant_age)
    \/ IsNone(arguments.monthly_rent)

\* _handle_calculate_uc
handle_calculate_uc(arguments, hu) ==
    IF MissingRequired(arguments)
    THEN Handled("KeyError", None, None, NoCall)
    ELSE LET kw == tool_kwargs(arguments)
             r  == calculate(kw, hu)
         IN  IF r.raised # ""
             THEN Handled(r.raised, None, Some(kw), r)
             ELSE Handled("", Some(ToolResult(json_dumps(Val(r.returned)),
                                              FALSE)),
                          Some(kw), r)

\* _handle_get_lha_rate
handle_get_lha_rate(arguments) ==
    IF IsNone(arguments.brma_code)
    THEN Handled("KeyError", None, None, NoCall)
    ELSE LET brma_code == Val(arguments.brma_code)
             bedrooms  == Get(arguments, "bedrooms", 1)
             rate      == get_lha_rate(Some(brma_code), bedrooms)
         IN  IF IsNone(rate)
             THEN Handled("", Some(ToolResult(
                                  <<"LHA rate not found for BRMA ",
                                    brma_code, bedrooms>>, TRUE)),
                          None, NoCall)
             ELSE Handled("", Some(ToolResult(
                                  json_dumps([brma_code    |-> brma_code,
                                              bedrooms     |-> bedrooms,
                                              monthly_rate |-> Val(rate)]),
                                  FALSE)),
                          None, NoCall)

\* _handle_list_lha_rates
handle_list_lha_rates(arguments) ==
    IF IsNone(arguments.brma_code)
    THEN Handled("KeyError", None, None, NoCall)
    ELSE LET brma_code == Val(arguments.brma_code)
             found     == get_lha_rates_for_brma(Some(brma_code))
         IN  IF IsNone(found)
             THEN Handled("", Some(ToolResult(
                                  <<"BRMA ", brma_code, " not found">>,
                                  TRUE)),
                          None, NoCall)
             ELSE Handled("", Some(ToolResult(
                                  json_dumps([brma_code |-> brma_code,
                                              rates     |-> Val(found)]),
                                  FALSE)),
                          None, NoCall)

\* The body of the try statement of call_tool.
dispatch(name, arguments, hu) ==
    IF name = "calculate_uc" THEN handle_calculate_uc(arguments, hu)
    ELSE IF name = "get_lha_rate" THEN handle_get_lha_rate(arguments)
    ELSE IF name = "list_lha_rates" THEN handle_list_lha_rates(arguments)
    ELSE Handled("", Some(ToolResult(<<"Unknown tool: ", name>>, TRUE)),
                 None, NoCall)

\* call_tool without its except clause: the exception leaves the handler.
tool_outcome_uncaught(handled_as) ==
    IF handled_as.raised # ""
    THEN Raise(handled_as.raised)
    ELSE Return(Val(handled_as.result))

\* What call_tool hands to the server: the result of the handler, or for an
\* exception the result ToolResult("Error: " + str(e), isError=True).
tool_outcome(handled_as) ==
    IF handled_as.raised # ""
    THEN Return(ToolResult(<<"Error: ", handled_as.raised>>, TRUE))
    ELSE Return(Val(handled_as.result))

\* The rounding directions open to the call of calculate the tool makes.
tool_directions(name, arguments) ==
    IF name = "calculate_uc" /\ ~MissingRequired(arguments)
    THEN Directions(tool_kwargs(arguments))
    ELSE {{}}

\* Names of tools: the three of list_tools and one that is not a tool.
ToolNames == {"calculate_uc", "get_lha_rate", "list_lha_rates", "get_rates"}

\* Longest children_ages drawn.
MaxAges == 2

\* Argument dicts: the keys of the three input schemas, each absent or set.
ToolArguments ==
    [ claimant_type            : {None, Some("single"), Some("joint"),
                                  Some("couple")},
      claimant_age             : {Some(30)},
      partner_age              : {None, Some(28)},
      num_children             : {None} \cup {Some(n) : n \in -1..(MaxAges + 1)},
      children_ages            : {None} \cup
                                 {Some(SubSeq(<<5, 8, 12, 16>>, 1, n)) :
                                     n \in 0..MaxAges},
      monthly_earnings         : {None, Some(GBP(500, 0))},
      partner_monthly_earnings : {None},
      monthly_rent             : {None, Some(GBP(600, 0))},
      brma_code                : {None, Some("INVALID"), Some("E09000002")},
      bedrooms_needed          : {None},
      bedrooms                 : {None, Some(2)},
      has_work_allowance       : {None},
      monthly_childcare_costs  : {None},
      has_disability           : {None},
      is_carer                 : {None} ]

\* The server has been constructed with its calculator, and a client is
\* about to call a tool.
InitMcp ==
    /\ rates = UCRates
    /\ call = None
    /\ pc = "call"
    /\ half_up = {}
    /\ frame = None
    /\ returned = None
    /\ raised = ""
    /\ \E name \in ToolNames : \E arguments \in ToolArguments :
           request = Some([name |-> name, arguments |-> arguments])
    /\ response = None
    /\ db = <<>>
    /\ handled = 0
    /\ rounds_up = {}
    /\ history = <<>>
    /\ threads = <<>>
    /\ lookup = None
    /\ lha_rates = DEFAULT_LHA_RATES
    /\ items_db = <<>>
    /\ users_db = <<>>

\* call_tool(name, arguments), from entry to its return.
call_tool ==
    /\ pc = "call"
    /\ LET name      == Val(request).name
           arguments == Val(request).arguments
       IN  \E hu \in tool_directions(name, arguments) :
               LET handled_as == dispatch(name, arguments, hu)
               IN  /\ half_up' = hu
                   /\ call' = handled_as.call
                   /\ frame' = handled_as.frame
                   /\ returned' = handled_as.returned
                   /\ raised' = handled_as.raised
                   /\ response' = Some(tool_outcome(handled_as))
    /\ pc' = "done"
    /\ UNCHANGED <<rates, request, db, handled, calls, lookup, modules>>

NextMcp == call_tool

SpecMcp == InitMcp /\ [][NextMcp]_vars

(* ------------------------------------------------------------------ *)
(* State machine of repeated calls of the shared calculator            *)
(* ------------------------------------------------------------------ *)

\* Most calls made of the shared calculator in a run.
MaxCalls == 3

\* A dependent of eight, not flagged and flagged disabled.
Child == [age |-> 8, is_disabled |-> FALSE]

DisabledChild == [age |-> 8, is_disabled |-> TRUE]

\* The keyword arguments of a call by a claimant of 25 renting at 500.00,
\* everything not given left at the default of the signature.
CallArgs(claimant_type, children, monthly_earnings, partner_monthly_earnings) ==
    [ claimant_type            |-> claimant_type,
      claimant_age             |-> 25,
      partner_age              |-> None,
      children                 |-> children,
      monthly_earnings         |-> monthly_earnings,
      partner_monthly_earnings |-> partner_monthly_earnings,
      monthly_rent             |-> GBP(500, 0),
      lha_rate                 |-> None,
      has_work_allowance       |-> FALSE,
      monthly_childcare_costs  |-> GBP(0, 0),
      has_disability           |-> FALSE,
      is_carer                 |-> FALSE ]

\* The calls drawn: without earnings; with earnings far above the gross
\* amount; with earnings 3p, 4p and 13p above the work allowance (the
\* deductions 0.0165, 0.022 and 0.0715); with earnings 10p above it (the
\* deduction 0.055, an exact half penny); with an invalid arrangement.
CallInputs ==
    { CallArgs("single", <<Child>>, GBP(0, 0), GBP(0, 0)),
      CallArgs("single", <<DisabledChild>>, GBP(0, 0), GBP(0, 0)),
      CallArgs("single", <<Child, Child>>, GBP(5000, 0), GBP(0, 0)),
      CallArgs("single", <<Child, DisabledChild>>, GBP(5000, 0), GBP(0, 0)),
      CallArgs("single", <<Child>>, GBP(290, 3), GBP(0, 0)),
      CallArgs("single", <<Child>>, GBP(290, 4), GBP(0, 0)),
      CallArgs("single", <<Child>>, GBP(290, 3), GBP(0, 10)),
      CallArgs("single", <<Child>>, GBP(290, 10), GBP(0, 0)),
      CallArgs("single", <<DisabledChild>>, GBP(290, 10), GBP(0, 0)),
      CallArgs("couple", <<>>, GBP(0, 0), GBP(0, 0)) }

\* The <<arguments, field>> at an exact half penny among the calls of a set.
TiePairs(inputs) ==
    UNION {{<<a, f>> : f \in Halves(a)} : a \in inputs}

\* The fields of the call with arguments a whose half penny rounds up.
half_up_of(a) == {f \in Fields : <<a, f>> \in rounds_up}

\* calculator = UCCalculator() at module level (routers/uc_calculator.py):
\* one calculator and one rate schedule serve every call.  How the
\* floating-point arithmetic rounds each half penny is fixed from the start.
InitCalls ==
    /\ rates = UCRates
    /\ call = None
    /\ pc = "idle"
    /\ half_up = {}
    /\ frame = None
    /\ returned = None
    /\ raised = ""
    /\ request = None
    /\ response = None
    /\ db = <<>>
    /\ handled = 0
    /\ rounds_up \in SUBSET TiePairs(CallInputs)
    /\ history = <<>>
    /\ threads = <<>>
    /\ lookup = None
    /\ lha_rates = DEFAULT_LHA_RATES
    /\ items_db = <<>>
    /\ users_db = <<>>

\* calculate with a side effect on the schedule: every call uprates the
\* standard allowance of a single claimant of 25 or more by a penny.
Call_uprating(a) ==
    LET r == calculate(a, half_up_of(a))
    IN  /\ history' = Append(history, [ args     |-> a,
                                        frame    |-> r.frame,
                                        returned |-> r.returned,
                                        raised   |-> r.raised ])
        /\ rates' = [rates EXCEPT !.STANDARD_ALLOWANCE.single_25_plus = @ + Cent]
        /\ UNCHANGED <<call, pc, half_up, frame, returned, raised>>
        /\ UNCHANGED <<api, rounds_up, threads, lookup, modules>>

\* calculator.calculate(**a), from entry to return or raise: it reads
\* self.rates and assigns nothing but its own locals.
Call(a) ==
    LET r == calculate(a, half_up_of(a))
    IN  /\ history' = Append(history, [ args     |-> a,
                                        frame    |-> r.frame,
                                        returned |-> r.returned,
                                        raised   |-> r.raised ])
        /\ rates' = rates
        /\ UNCHANGED <<call, pc, half_up, frame, returned, raised>>
        /\ UNCHANGED <<api, rounds_up, threads, lookup, modules>>

NextCalls ==
    /\ Len(history) < MaxCalls
    /\ \E a \in CallInputs : Call(a)

SpecCalls == InitCalls /\ [][NextCalls]_vars

(* ------------------------------------------------------------------ *)
(* State machine of concurrent calls of the shared calculator          *)
(* ------------------------------------------------------------------ *)

\* Most calls in flight at once.
MaxThreads == 2

Threads == 1..MaxThreads

\* The calls drawn: no dependent and earnings far above the gross amount; a
\* dependent and earnings 10p above the work allowance (a deduction at an
\* exact half penny); a joint claim with a disabled dependent and partner
\* earnings; an invalid arrangement.
ThreadInputs ==
    { CallArgs("single", <<>>, GBP(5000, 0), GBP(0, 0)),
      CallArgs("single", <<Child>>, GBP(290, 10), GBP(0, 0)),
      CallArgs("joint", <<DisabledChild>>, GBP(0, 0), GBP(400, 0)),
      CallArgs("couple", <<>>, GBP(0, 0), GBP(0, 0)) }

\* The locals of an activation with those of new assigned.
Bind(locals, new) ==
    [f \in DOMAIN locals \cup DOMAIN new |->
        IF f \in DOMAIN new THEN new[f] ELSE locals[f]]

\* The locals named in names as calculate computes them from the arguments
\* a, the standard allowance sa and the schedule as it is now.
Assigned(a, sa, names) ==
    [f \in names |-> calculate_locals(a, sa)[f]]

\* Every thread is about to call calculate of the one module-level
\* calculator with arguments of its own; its frame is empty.
InitThreads ==
    /\ rates = UCRates
    /\ call = None
    /\ pc = "idle"
    /\ half_up = {}
    /\ frame = None
    /\ returned = None
    /\ raised = ""
    /\ request = None
    /\ response = None
    /\ db = <<>>
    /\ handled = 0
    /\ rounds_up \in SUBSET TiePairs(ThreadInputs)
    /\ history = <<>>
    /\ threads \in [Threads -> [ args     : ThreadInputs,
                                 pc       : {"standard"},
                                 locals   : {[f \in {} |-> 0]},
                                 returned : {None},
                                 raised   : {""} ]]
    /\ lookup = None
    /\ lha_rates = DEFAULT_LHA_RATES
    /\ items_db = <<>>
    /\ users_db = <<>>

\* Lines 83-89 of thread t: the standard allowance, or the ValueError that
\* ends the call.
StandardAllowance(t) ==
    LET th == threads[t]
        sa == calculate_standard_allowance(th.args.claimant_type,
                                           th.args.claimant_age,
                                           th.args.partner_age)
    IN  /\ th.pc = "standard"
        /\ threads' =
               IF sa.raised # ""
               THEN [threads EXCEPT ![t].pc = "done",
                                    ![t].raised = sa.raised]
               ELSE [threads EXCEPT
                        ![t].pc = "elements",
                        ![t].locals =
                            Bind(@, [standard_allowance |-> Val(sa.value)])]
        /\ rates' = rates
        /\ UNCHANGED <<call, pc, half_up, frame, returned, raised>>
        /\ UNCHANGED <<api, rounds_up, history, lookup, modules>>

\* Lines 91-118 of thread t: the housing, child, childcare, disability and
\* carer elements and the gross entitlement.
Elements(t) ==
    LET th == threads[t]
    IN  /\ th.pc = "elements"
        /\ threads' =
               [threads EXCEPT
                   ![t].pc = "deduction",
                   ![t].locals =
                       Bind(@, Assigned(th.args, th.locals.standard_allowance,
                                        { "housing_element", "child_element",
                                          "childcare_element",
                                          "disability_element",
                                          "carer_element",
                                          "gross_entitlement" }))]
        /\ rates' = rates
        /\ UNCHANGED <<call, pc, half_up, frame, returned, raised>>
        /\ UNCHANGED <<api, rounds_up, history, lookup, modules>>

\* Lines 120-129 keeping the work allowance of the call on the schedule.
Deduction_caching(t) ==
    LET th  == threads[t]
        now == Assigned(th.args, th.locals.standard_allowance,
                        {"work_allowance", "earnings_deduction"})
    IN  /\ th.pc = "deduction"
        /\ threads' =
               [threads EXCEPT
                   ![t].pc = "emit",
                   ![t].locals =
                       Bind(Bind(@, now),
                            [total_entitlement |->
                                final_entitlement(th.locals.gross_entitlement,
                                                  now.earnings_deduction)])]
        /\ rates' = [rates EXCEPT !.WORK_ALLOWANCE_WITH_CHILDREN =
                                      now.work_allowance]
        /\ UNCHANGED <<call, pc, half_up, frame, returned, raised>>
        /\ UNCHANGED <<api, rounds_up, history, lookup, modules>>

\* Lines 120-129 of thread t: the work allowance, the earnings deduction
\* and the total of the gross amount already computed.
Deduction(t) ==
    LET th  == threads[t]
        now == Assigned(th.args, th.locals.standard_allowance,
                        {"work_allowance", "earnings_deduction"})
    IN  /\ th.pc = "deduction"
        /\ threads' =
               [threads EXCEPT
                   ![t].pc = "emit",
                   ![t].locals =
                       Bind(Bind(@, now),
                            [total_entitlement |->
                                final_entitlement(th.locals.gross_entitlement,
                                                  now.earnings_deduction)])]
        /\ rates' = rates
        /\ UNCHANGED <<call, pc, half_up, frame, returned, raised>>
        /\ UNCHANGED <<api, rounds_up, history, lookup, modules>>

\* Lines 131-143 of thread t: the dictionary of rounded values is built
\* and returned.
Emit(t) ==
    LET th == threads[t]
        emitted == Bind(th.locals,
                        [total_earnings |->
                            th.args.monthly_earnings
                                + th.args.partner_monthly_earnings])
    IN  /\ th.pc = "emit"
        /\ threads' =
               [threads EXCEPT
                   ![t].pc = "done",
                   ![t].locals = emitted,
                   ![t].returned =
                       Some(breakdown(emitted, half_up_of(th.args)))]
        /\ rates' = rates
        /\ UNCHANGED <<call, pc, half_up, frame, returned, raised>>
        /\ UNCHANGED <<api, rounds_up, history, lookup, modules>>

NextThreads ==
    \E t \in Threads :
        \/ StandardAllowance(t)
        \/ Elements(t)
        \/ Deduction(t)
        \/ Emit(t)

SpecThreads == InitThreads /\ [][NextThreads]_vars

(* ------------------------------------------------------------------ *)
(* State machine of the LHA service: one area, both lookups            *)
(* ------------------------------------------------------------------ *)

\* Area identifiers: absent, empty, unknown and the four of the table.
BrmaCodes ==
    {None, Some(""), Some("INVALID")}
        \cup {Some(c) : c \in DOMAIN DEFAULT_LHA_RATES}

\* Bedroom counts: below the bands, the five bands and beyond.
BedroomCounts == {-1, 0, 1, 2, 3, 4, 5, 9}

\* The static methods of LHAService are about to be called for an area and
\* a bedroom count; neither has answered.
InitLha ==
    /\ rates = UCRates
    /\ call = None
    /\ pc = "idle"
    /\ half_up = {}
    /\ frame = None
    /\ returned = None
    /\ raised = ""
    /\ request = None
    /\ response = None
    /\ db = <<>>
    /\ handled = 0
    /\ rounds_up = {}
    /\ history = <<>>
    /\ threads = <<>>
    /\ lha_rates = DEFAULT_LHA_RATES
    /\ items_db = <<>>
    /\ users_db = <<>>
    /\ \E brma_code \in BrmaCodes : \E bedrooms \in BedroomCounts :
           lookup = [ brma_code |-> brma_code,
                      bedrooms  |-> bedrooms,
                      rate      |-> None,
                      rate_set  |-> None ]

\* LHAService.get_lha_rate(brma_code, bedrooms): it has no raise and
\* subscripts the table only for a code it has found there.
GetLhaRate ==
    /\ IsNone(lookup.rate)
    /\ lookup' = [lookup EXCEPT !.rate =
                      Some(Return(get_lha_rate(lookup.brma_code,
                                               lookup.bedrooms)))]
    /\ UNCHANGED <<engine, api, calls, modules>>

\* LHAService.get_lha_rates_for_brma(brma_code)
GetLhaRatesForBrma ==
    /\ IsNone(lookup.rate_set)
    /\ lookup' = [lookup EXCEPT !.rate_set =
                      Some(Return(get_lha_rates_for_brma(lookup.brma_code)))]
    /\ UNCHANGED <<engine, api, calls, modules>>

NextLha == GetLhaRate \/ GetLhaRatesForBrma

SpecLha == InitLha /\ [][NextLha]_vars

(* ------------------------------------------------------------------ *)
(* Properties of calculate                                             *)
(* ------------------------------------------------------------------ *)

\* The call has returned a breakdown.
Returned == pc = "done" /\ raised = ""

\* The returned dictionary, the unrounded locals and the arguments.
out == Val(returned)

loc == Val(frame)

\* C1: for every valid input the emitted total_entitlement is >= 0.
C1_TotalNonNegative ==
    Returned => out.total_entitlement >= 0

\* The deduction exceeds the gross amount and the floor acts.
C1_Witness ==
    /\ Returned
    /\ loc.gross_entitlement < loc.earnings_deduction
    /\ out.total_entitlement = 0

\* C2: the emitted total_entitlement is the two-decimal rounding of the
\* unrounded gross minus the unrounded deduction when gross >= deduction,
\* and 0 otherwise.
C2_TotalIsRoundedDifference ==
    Returned =>
        IF loc.gross_entitlement >= loc.earnings_deduction
        THEN out.total_entitlement
                 = round(loc.gross_entitlement - loc.earnings_deduction,
                         "total_entitlement" \in half_up)
        ELSE out.total_entitlement = 0

\* A positive deduction that is an exact half penny leaves a positive total.
C2_Witness ==
    /\ Returned
    /\ IsHalf(loc.earnings_deduction)
    /\ loc.gross_entitlement > loc.earnings_deduction
    /\ out.total_entitlement > 0


\* C3: the standard allowance is selected by arrangement and age band: for
\* single the under-25 rate iff the claimant is under 25 (25 itself gets the
\* 25-plus rate); for joint the under-25 rate iff either partner is under 25.
C3_StandardAllowanceBand ==
    Returned =>
        LET a  == call
            sa == rates.STANDARD_ALLOWANCE
        IN  /\ a.claimant_type = "single" =>
                  out.standard_allowance =
                      (IF a.claimant_age < 25
                       THEN sa.single_under_25 ELSE sa.single_25_plus)
            /\ (a.claimant_type = "joint" /\ ~IsNone(a.partner_age)) =>
                  out.standard_allowance =
                      (IF a.claimant_age < 25 \/ Val(a.partner_age) < 25
                       THEN sa.joint_under_25 ELSE sa.joint_25_plus)

\* A joint claim whose claimant is 25 and whose partner is younger gets the
\* under-25 joint rate.
C3_Witness ==
    /\ Returned
    /\ call.claimant_type = "joint"
    /\ call.claimant_age = 25
    /\ ~IsNone(call.partner_age)
    /\ Val(call.partner_age) < 25
    /\ out.standard_allowance = rates.STANDARD_ALLOWANCE.joint_under_25

\* C4: the housing element is the rent when no cap is supplied, and the
\* lesser of rent and cap when one is; it exceeds neither cap nor rent.
C4_HousingElement ==
    Returned =>
        LET a == call
        IN  /\ IsNone(a.lha_rate) => out.housing_element = a.monthly_rent
            /\ ~IsNone(a.lha_rate) =>
                  /\ a.monthly_rent <= Val(a.lha_rate)
                         => out.housing_element = a.monthly_rent
                  /\ a.monthly_rent > Val(a.lha_rate)
                         => out.housing_element = Val(a.lha_rate)
                  /\ out.housing_element <= Val(a.lha_rate)
            /\ out.housing_element <= a.monthly_rent

\* A rent above the supplied cap is cut down to the cap.
C4_Witness ==
    /\ Returned
    /\ ~IsNone(call.lha_rate)
    /\ call.monthly_rent > Val(call.lha_rate)
    /\ out.housing_element = Val(call.lha_rate)

\* The number of dependents of the list flagged disabled.
NumDisabled(children) ==
    Cardinality({i \in 1..Len(children) : children[i].is_disabled})

\* C5: the child element is 0 for no dependents; otherwise the first rate
\* for the dependent at the first position, the additional rate for every
\* later one, and the disabled addition on top for every disabled one.
C5_ChildElement ==
    Returned =>
        LET c == call.children
        IN  out.child_element =
                IF Len(c) = 0
                THEN 0
                ELSE rates.FIRST_CHILD_ELEMENT
                     + (Len(c) - 1) * rates.ADDITIONAL_CHILD_ELEMENT
                     + NumDisabled(c) * rates.DISABLED_CHILD_ADDITION

\* Two dependents, the first of them disabled.
C5_Witness ==
    /\ Returned
    /\ Len(call.children) = 2
    /\ call.children[1].is_disabled
    /\ ~call.children[2].is_disabled
    /\ out.child_element = rates.FIRST_CHILD_ELEMENT
                            + rates.DISABLED_CHILD_ADDITION
                            + rates.ADDITIONAL_CHILD_ELEMENT

\* The last request was answered 200 with a calculation result.
Answered == ~IsNone(response) /\ Val(response).status = 200

\* C6: the childcare element is 0 when the eligible cost is <= 0 or there is
\* no dependent; otherwise 85% of the cost capped at 300 for two or more
\* dependents and at 175 for one; has_childcare_costs does not enter.
C6_ChildcareElement ==
    Answered =>
        LET req  == Val(request)
            n    == Len(req.children)
            cost == req.monthly_childcare_costs
            cap  == IF n >= 2 THEN GBP(300, 0) ELSE GBP(175, 0)
            elem == IF cost <= 0 \/ n = 0
                    THEN 0
                    ELSE (Min(cost, cap) \div Cent) * 85
        IN  /\ loc.childcare_element = elem
            /\ Val(Val(response).body).results.childcare_element
                  = round(elem, "childcare_element" \in half_up)

\* A request with one dependent and a cost above the one-dependent cap that
\* leaves has_childcare_costs unset is paid 85% of 175.
C6_Witness ==
    /\ Answered
    /\ ~Val(request).has_childcare_costs
    /\ Len(Val(request).children) = 1
    /\ Val(request).monthly_childcare_costs > GBP(175, 0)
    /\ Val(Val(response).body).results.childcare_element = GBP(148, 75)

\* C7: the work allowance of the breakdown is the flat 290.00 whenever there
\* is a dependent or has_disability or is_carer is set, and 0 otherwise.
C7_WorkAllowance ==
    Returned =>
        LET a == call
        IN  out.work_allowance =
                IF Len(a.children) > 0 \/ a.has_disability \/ a.is_carer
                THEN GBP(290, 0)
                ELSE 0

\* A carer without dependents who did not set has_work_allowance gets it.
C7_Witness ==
    /\ Returned
    /\ Len(call.children) = 0
    /\ call.is_carer
    /\ ~call.has_disability
    /\ ~call.has_work_allowance
    /\ out.work_allowance = GBP(290, 0)

\* C8: the deduction is 0 when claimant plus partner earnings are at most
\* the work allowance, and 55% of the excess otherwise.
C8_EarningsDeduction ==
    Returned =>
        LET a        == call
            combined == a.monthly_earnings + a.partner_monthly_earnings
            excess   == combined - loc.work_allowance
        IN  /\ combined <= loc.work_allowance => loc.earnings_deduction = 0
            /\ combined > loc.work_allowance =>
                  /\ excess % Cent = 0
                  /\ loc.earnings_deduction = (excess \div Cent) * 55
            /\ out.earnings_deduction
                  = round(loc.earnings_deduction,
                          "earnings_deduction" \in half_up)

\* The partner's earnings lift the combined earnings over a positive work
\* allowance that the claimant's earnings alone only reach.
C8_Witness ==
    /\ Returned
    /\ loc.work_allowance > 0
    /\ call.monthly_earnings = loc.work_allowance
    /\ call.partner_monthly_earnings > 0
    /\ loc.earnings_deduction > 0

\* C9: an arrangement that is neither single nor joint raises the
\* invalid-input error and yields no breakdown, not even the locals of a
\* later stage; every call with a valid arrangement returns a breakdown with
\* all eleven fields and does not raise.
C9_InvalidArrangementRaises ==
    pc = "done" =>
        IF call.claimant_type \in {"single", "joint"}
        THEN /\ raised = ""
             /\ ~IsNone(returned)
             /\ DOMAIN out = Fields
             /\ Cardinality(DOMAIN out) = 11
        ELSE /\ raised = "ValueError"
             /\ IsNone(returned)
             /\ IsNone(frame)

\* A call with the arrangement "couple" has raised.
C9_Witness ==
    /\ pc = "done"
    /\ call.claimant_type = "couple"
    /\ raised = "ValueError"
    /\ IsNone(returned)

\* C10: a joint arrangement without a partner age is rejected with the
\* invalid-input error and yields no breakdown.
C10_JointWithoutPartnerAgeRejected ==
    (pc = "done" /\ call.claimant_type = "joint"
                 /\ IsNone(call.partner_age)) =>
        (raised = "ValueError" /\ IsNone(returned))

\* C14: every monetary field of the breakdown is its unrounded stage value
\* rounded to two decimal places half-up, and rounding happens only at
\* emission: gross, deduction and total are computed from unrounded values.
C14_RoundedHalfUpAtEmission ==
    Returned =>
        /\ \A f \in Fields : out[f] = round(loc[f], TRUE)
        /\ loc.gross_entitlement
               = loc.standard_allowance + loc.housing_element
                 + loc.child_element + loc.childcare_element
                 + loc.disability_element + loc.carer_element
        /\ loc.earnings_deduction
               = calculate_earnings_deduction(call.monthly_earnings,
                                              call.partner_monthly_earnings,
                                              loc.work_allowance)
        /\ loc.total_entitlement
               = Max(0, loc.gross_entitlement - loc.earnings_deduction)

\* The figure standard_allowance + housing_element + child_element
\* + childcare_element + disability_element + carer_element
\* - earnings_deduction of the emitted fields.
EmittedFigure ==
    out.standard_allowance + out.housing_element + out.child_element
    + out.childcare_element + out.disability_element + out.carer_element
    - out.earnings_deduction

\* C15 as stated: the emitted total_entitlement differs by less than 0.01
\* from the figure computed from the emitted fields.
C15_TotalWithinPennyOfEmittedFigure ==
    Returned =>
        /\ out.total_entitlement - EmittedFigure < Cent
        /\ EmittedFigure - out.total_entitlement < Cent

\* C15: when the unrounded deduction does not exceed the unrounded gross
\* amount, the emitted total_entitlement differs by at most 0.01 from the
\* figure computed from the emitted fields; when it does, the emitted total
\* is 0 and the figure is 0 or negative.
C15_TotalWithinPennyUnlessFloored ==
    Returned =>
        /\ loc.gross_entitlement >= loc.earnings_deduction =>
              /\ out.total_entitlement - EmittedFigure <= Cent
              /\ EmittedFigure - out.total_entitlement <= Cent
        /\ loc.gross_entitlement < loc.earnings_deduction =>
              /\ out.total_entitlement = 0
              /\ EmittedFigure <= 0

\* A breakdown, not floored, whose total is a whole penny above the figure
\* of its emitted fields.
C15_Witness ==
    /\ Returned
    /\ loc.gross_entitlement > loc.earnings_deduction
    /\ out.total_entitlement = EmittedFigure + Cent

\* C20: every monetary field of a returned breakdown is non-negative.
C20_FieldsNonNegative ==
    Returned => \A f \in Fields : out[f] >= 0

\* A breakdown of earnings below a positive work allowance, its deduction
\* and its eleven fields all 0 or more, its childcare element positive.
C20_Witness ==
    /\ Returned
    /\ call.monthly_earnings + call.partner_monthly_earnings
           < loc.work_allowance
    /\ out.earnings_deduction = 0
    /\ out.childcare_element > 0
    /\ \A f \in Fields : out[f] >= 0

\* The last request names an area identifier.
NamesArea ==
    /\ ~IsNone(request)
    /\ ~IsNone(Val(request).brma_code)
    /\ Val(Val(request).brma_code) # ""

\* What the rate lookup returns for the area and bedrooms of the request.
Found ==
    get_lha_rate(Val(request).brma_code, Val(request).bedrooms_needed)

C21_DisabilityAndCarerElements ==
    Returned =>
        /\ loc.disability_element
               = (IF call.has_disability THEN GBP(134, 88) ELSE 0)
        /\ loc.carer_element = (IF call.is_carer THEN GBP(163, 44) ELSE 0)
        /\ out.disability_element = loc.disability_element
        /\ out.carer_element = loc.carer_element

\* A claimant with both flags set, dependents and earnings is paid both
\* additions.
C21_Witness ==
    /\ Returned
    /\ call.has_disability
    /\ call.is_carer
    /\ Len(call.children) > 0
    /\ call.monthly_earnings > 0
    /\ out.disability_element = GBP(134, 88)
    /\ out.carer_element = GBP(163, 44)

\* The sum of the six emitted elements.
EmittedElements ==
    out.standard_allowance + out.housing_element + out.child_element
    + out.childcare_element + out.disability_element + out.carer_element

\* C23: the gross entitlement before taper is the sum of the standard
\* allowance and the housing, child, childcare, disability and carer
\* elements, and is the same whatever the earnings and has_work_allowance
\* are.  The emitted gross_entitlement is its rounding; it is the sum of the
\* emitted elements unless the childcare element is an exact half penny,
\* where the two roundings can part by a penny.
C23_GrossIsSumOfElements ==
    Returned =>
        /\ loc.gross_entitlement
               = loc.standard_allowance + loc.housing_element
                 + loc.child_element + loc.childcare_element
                 + loc.disability_element + loc.carer_element
        /\ \A e \in Earnings : \A pe \in PartnerEarnings : \A wa \in BOOLEAN :
               calculate_locals([call EXCEPT
                                    !.monthly_earnings = e,
                                    !.partner_monthly_earnings = pe,
                                    !.has_work_allowance = wa],
                                loc.standard_allowance).gross_entitlement
                   = loc.gross_entitlement
        /\ out.gross_entitlement
               = round(loc.gross_entitlement,
                       "gross_entitlement" \in half_up)
        /\ ~IsHalf(loc.childcare_element) =>
               out.gross_entitlement = EmittedElements
        /\ out.gross_entitlement - EmittedElements \in {0 - Cent, 0, Cent}

\* A carer with a disability, dependents, childcare costs and earnings far
\* above the gross amount: the gross entitlement counts all six elements.
C23_Witness ==
    /\ Returned
    /\ call.is_carer
    /\ call.has_disability
    /\ Len(call.children) > 0
    /\ loc.childcare_element > 0
    /\ ~IsHalf(loc.childcare_element)
    /\ loc.earnings_deduction > loc.gross_entitlement
    /\ out.gross_entitlement = EmittedElements

\* The arguments of the call with has_work_allowance negated.
FlagNegated == [call EXCEPT !.has_work_allowance = ~@]

\* C26: has_work_allowance has no effect on the result: the call with the
\* flag negated and everything else the same raises the same error or
\* returns the same locals and the same breakdown, work_allowance and
\* earnings_deduction included.
C26_WorkAllowanceFlagHasNoEffect ==
    pc = "done" =>
        /\ Directions(FlagNegated) = Directions(call)
        /\ LET r == calculate(FlagNegated, half_up)
           IN  /\ r.raised = raised
               /\ r.frame = frame
               /\ r.returned = returned

\* A call without the flag that is granted the work allowance and has a
\* deduction that leaves a positive total; with the flag it returns the same.
C26_Witness ==
    /\ Returned
    /\ ~call.has_work_allowance
    /\ out.work_allowance = GBP(290, 0)
    /\ out.earnings_deduction > 0
    /\ out.total_entitlement > 0
    /\ Val(calculate(FlagNegated, half_up).returned).work_allowance
           = GBP(290, 0)

\* monthly_earnings + partner_monthly_earnings of arguments a.
CombinedEarnings(a) == a.monthly_earnings + a.partner_monthly_earnings

\* The arguments of the call with ten pence of the claimant's earnings moved
\* to the partner: the same combined earnings, split differently.
Resplit ==
    IF call.monthly_earnings >= GBP(0, 10)
    THEN {[call EXCEPT !.monthly_earnings = @ - GBP(0, 10),
                       !.partner_monthly_earnings = @ + GBP(0, 10)]}
    ELSE {}

\* Arguments other than the call's that differ from them in the two earnings
\* only and whose combined earnings are those of the call or more.
NoLowerEarnings ==
    {a \in Resplit \cup
           {[call EXCEPT !.monthly_earnings = e,
                         !.partner_monthly_earnings = pe] :
               e \in Earnings, pe \in PartnerEarnings} :
        a # call /\ CombinedEarnings(a) >= CombinedEarnings(call)}

\* The rounding directions that arguments a can show beside the call: the
\* fields outside free are the same numbers in both calls and round alike.
DirectionsBeside(a, free) ==
    {hu \in Directions(a) :
        \A f \in Fields \ free : f \in hu <=> f \in half_up}

\* C27: the total never exceeds the gross amount, and with all other inputs
\* fixed it is non-increasing in the combined earnings: arguments with the
\* same or higher combined earnings never yield a higher total.
C27_TotalNonIncreasingInEarnings ==
    Returned =>
        /\ out.total_entitlement <= out.gross_entitlement
        /\ \A a \in NoLowerEarnings :
               \A hu \in DirectionsBeside(a, {"total_earnings",
                                              "earnings_deduction",
                                              "total_entitlement"}) :
                   Val(calculate(a, hu).returned).total_entitlement
                       <= out.total_entitlement

\* The orderings of a dependents list.
Orderings(children) ==
    LET n == Len(children)
    IN  {[i \in 1..n |-> children[p[i]]] :
            p \in {q \in [1..n -> 1..n] :
                      \A i, j \in 1..n : q[i] = q[j] => i = j}}

\* C25: the breakdown does not depend on the order of the dependents: every
\* other ordering of the same dependents yields the identical breakdown.
C25_DependentsOrderIrrelevant ==
    Returned =>
        \A c \in Orderings(call.children) \ {call.children} :
            LET a == [call EXCEPT !.children = c]
            IN  \A hu \in DirectionsBeside(a, {"child_element",
                                               "gross_entitlement",
                                               "total_entitlement"}) :
                    calculate(a, hu).returned = returned

(* ------------------------------------------------------------------ *)
(* Properties of repeated calls                                        *)
(* ------------------------------------------------------------------ *)

\* The calls of the history, by position.
Calls == 1..Len(history)

\* The arguments a with the dependent at position k flagged disabled.
SetDisabled(a, k) == [a EXCEPT !.children[k].is_disabled = TRUE]

\* Calls i and j both returned, and the arguments of j are those of i with
\* one non-disabled dependent flagged disabled.
FlaggedPair(i, j) ==
    /\ history[i].raised = ""
    /\ history[j].raised = ""
    /\ \E k \in 1..Len(history[i].args.children) :
           /\ ~history[i].args.children[k].is_disabled
           /\ history[j].args = SetDisabled(history[i].args, k)

\* C11 as stated: flagging one non-disabled dependent disabled, all else
\* fixed, raises the emitted total_entitlement by exactly the disabled-child
\* addition.
C11_DisabledFlagAddsConstant ==
    \A i, j \in Calls :
        FlaggedPair(i, j) =>
            Val(history[j].returned).total_entitlement
                = Val(history[i].returned).total_entitlement
                  + rates.DISABLED_CHILD_ADDITION

\* C11: flagging one non-disabled dependent disabled, all else fixed, raises
\* the unrounded total by exactly the disabled-child addition when the
\* deduction of the unflagged call does not exceed its gross amount, and the
\* emitted totals then differ by the addition, give or take a penny only
\* where the unrounded total is an exact half penny; when the deduction
\* exceeds the gross amount the unflagged total is floored at 0 and the
\* increase is less than the addition.
C11_DisabledFlagAddsConstantUnlessFloored ==
    \A i, j \in Calls :
        FlaggedPair(i, j) =>
            LET li  == Val(history[i].frame)
                lj  == Val(history[j].frame)
                oi  == Val(history[i].returned)
                oj  == Val(history[j].returned)
                dca == rates.DISABLED_CHILD_ADDITION
            IN  /\ li.gross_entitlement >= li.earnings_deduction =>
                      /\ lj.total_entitlement = li.total_entitlement + dca
                      /\ oj.total_entitlement - oi.total_entitlement
                             \in {dca - Cent, dca, dca + Cent}
                      /\ ~IsHalf(li.total_entitlement) =>
                             oj.total_entitlement
                                 = oi.total_entitlement + dca
                /\ li.gross_entitlement < li.earnings_deduction =>
                      /\ oi.total_entitlement = 0
                      /\ lj.total_entitlement < dca
                      /\ oj.total_entitlement <= dca

\* Two calls, the second with the only dependent of the first flagged
\* disabled, neither floored: the emitted total rose by the addition.
C11_Witness ==
    /\ Len(history) >= 2
    /\ FlaggedPair(1, 2)
    /\ Val(history[1].frame).gross_entitlement
           > Val(history[1].frame).earnings_deduction
    /\ Val(history[1].returned).total_entitlement > 0
    /\ Val(history[2].returned).total_entitlement
           = Val(history[1].returned).total_entitlement
             + rates.DISABLED_CHILD_ADDITION

\* The combined earnings of call i.
Combined(i) ==
    history[i].args.monthly_earnings
        + history[i].args.partner_monthly_earnings

\* Calls i and j both returned with the same work allowance, both with
\* combined earnings above it, those of i below those of j.
RisingPair(i, j) ==
    /\ history[i].raised = ""
    /\ history[j].raised = ""
    /\ Val(history[i].frame).work_allowance
           = Val(history[j].frame).work_allowance
    /\ Combined(i) > Val(history[i].frame).work_allowance
    /\ Combined(i) < Combined(j)

\* C12 as stated: the emitted earnings_deduction is 0 for combined earnings
\* at most the work allowance and strictly increasing above it.
C12_DeductionStrictlyIncreasing ==
    /\ \A i \in Calls :
           (history[i].raised = ""
                /\ Combined(i) <= Val(history[i].frame).work_allowance)
               => Val(history[i].returned).earnings_deduction = 0
    /\ \A i, j \in Calls :
           RisingPair(i, j) =>
               Val(history[i].returned).earnings_deduction
                   < Val(history[j].returned).earnings_deduction

\* C12: the emitted earnings_deduction is 0 for combined earnings at most
\* the work allowance; above it the unrounded deduction is strictly
\* increasing in the combined earnings and the emitted one non-decreasing.
C12_DeductionNonDecreasing ==
    /\ \A i \in Calls :
           (history[i].raised = ""
                /\ Combined(i) <= Val(history[i].frame).work_allowance)
               => Val(history[i].returned).earnings_deduction = 0
    /\ \A i, j \in Calls :
           RisingPair(i, j) =>
               /\ Val(history[i].frame).earnings_deduction
                      < Val(history[j].frame).earnings_deduction
               /\ Val(history[i].returned).earnings_deduction
                      <= Val(history[j].returned).earnings_deduction

\* Two calls with combined earnings above the same work allowance, the
\* second a penny higher: the unrounded deduction rose, the emitted did not.
C12_Witness ==
    /\ Len(history) >= 2
    /\ RisingPair(1, 2)
    /\ Combined(2) = Combined(1) + Cent
    /\ Val(history[1].frame).earnings_deduction
           < Val(history[2].frame).earnings_deduction
    /\ Val(history[1].returned).earnings_deduction
           = Val(history[2].returned).earnings_deduction

\* C13: two calls of calculate with identical arguments on the same rate
\* schedule have the same outcome, the same breakdown or the same error,
\* whatever calls were made before or between them.
C13_IdenticalInputsIdenticalBreakdowns ==
    \A i, j \in Calls :
        history[i].args = history[j].args =>
            /\ history[i].raised = history[j].raised
            /\ history[i].returned = history[j].returned
            /\ history[i].frame = history[j].frame

\* Three calls, the first and the third with the same arguments and another
\* calculation between them: both returned the same breakdown.
C13_Witness ==
    /\ Len(history) = 3
    /\ history[1].args = history[3].args
    /\ history[2].args # history[1].args
    /\ history[2].raised = ""
    /\ history[1].raised = ""
    /\ ~IsNone(history[3].returned)
    /\ history[1].returned = history[3].returned

\* Calls i and j both have the arrangement single and differ in nothing
\* but partner_monthly_earnings.
SinglePartnerPair(i, j) ==
    /\ history[i].args.claimant_type = "single"
    /\ history[j].args
           = [history[i].args EXCEPT !.partner_monthly_earnings =
                  history[j].args.partner_monthly_earnings]

\* C18: two single-arrangement calls that differ only in
\* partner_monthly_earnings return identical breakdowns.
C18_SinglePartnerEarningsIgnored ==
    \A i, j \in Calls :
        SinglePartnerPair(i, j) =>
            /\ history[i].raised = history[j].raised
            /\ history[i].returned = history[j].returned

(* ------------------------------------------------------------------ *)
(* Properties of the LHA service                                       *)
(* ------------------------------------------------------------------ *)

\* The area of the lookup is one of the table.
KnownArea ==
    /\ ~IsNone(lookup.brma_code)
    /\ Val(lookup.brma_code) \in DOMAIN DEFAULT_LHA_RATES

\* C16: get_lha_rate never raises; for an unknown, empty or absent area it
\* returns None for every bedroom count; for a known area the counts 0, 1,
\* 2, 3 return the studio, one-, two- and three-bed rates and every count
\* >= 4 the four-bed rate; get_lha_rates_for_brma returns None for an
\* unknown area and the full rate set of the area otherwise.
C16_LhaLookup ==
    /\ ~IsNone(lookup.rate) =>
          LET r == Val(lookup.rate)
              n == lookup.bedrooms
          IN  /\ r.raised = ""
              /\ ~KnownArea => Val(r.value) = None
              /\ KnownArea =>
                    LET area == DEFAULT_LHA_RATES[Val(lookup.brma_code)]
                    IN  /\ n = 0 => Val(r.value) = Some(area.studio_rate)
                        /\ n = 1 => Val(r.value) = Some(area.one_bed_rate)
                        /\ n = 2 => Val(r.value) = Some(area.two_bed_rate)
                        /\ n = 3 => Val(r.value) = Some(area.three_bed_rate)
                        /\ n >= 4 => Val(r.value) = Some(area.four_bed_rate)
    /\ ~IsNone(lookup.rate_set) =>
          LET r == Val(lookup.rate_set)
          IN  /\ r.raised = ""
              /\ ~KnownArea => Val(r.value) = None
              /\ KnownArea =>
                    /\ Val(r.value)
                           = Some(DEFAULT_LHA_RATES[Val(lookup.brma_code)])
                    /\ DOMAIN Val(Val(r.value))
                           = { "brma_name", "local_authority",
                               "studio_rate", "one_bed_rate", "two_bed_rate",
                               "three_bed_rate", "four_bed_rate" }

\* Both lookups have answered for a known area and more than four bedrooms: the
\* four-bed rate and the full rate set.
C16_Witness ==
    /\ KnownArea
    /\ lookup.bedrooms > 4
    /\ ~IsNone(lookup.rate)
    /\ ~IsNone(lookup.rate_set)
    /\ Val(Val(lookup.rate).value)
           = Some(DEFAULT_LHA_RATES[Val(lookup.brma_code)].four_bed_rate)
    /\ ~IsNone(Val(Val(lookup.rate_set).value))

(* ------------------------------------------------------------------ *)
(* Properties of the claim store                                       *)
(* ------------------------------------------------------------------ *)

\* The references of the stored claims.
StoredReferences == {db[i].claim_reference : i \in 1..Len(db)}

\* The rows stored under a reference.
RowsOf(claim_reference) ==
    {i \in 1..Len(db) : db[i].claim_reference = claim_reference}

UpperHexDigits ==
    { "0", "1", "2", "3", "4", "5", "6", "7", "8", "9",
      "A", "B", "C", "D", "E", "F" }

\* 'UC-' followed by 8 uppercase hexadecimal characters.
WellFormed(claim_reference) ==
    /\ Len(claim_reference) = 11
    /\ SubSeq(claim_reference, 1, 3) = "UC-"
    /\ \A i \in 4..11 : SubSeq(claim_reference, i, i) \in UpperHexDigits

\* The last request was a calculate request and was answered 200.
Calculated == pc = "done" /\ Val(response).status = 200

\* The body of the last response.
body == Val(Val(response).body)

\* No two stored references are equal, every stored or returned reference
\* is well-formed, and a returned reference is that of the newest row.
DistinctWellFormedReferences ==
    /\ \A i, j \in 1..Len(db) :
           db[i].claim_reference = db[j].claim_reference => i = j
    /\ \A i \in 1..Len(db) : WellFormed(db[i].claim_reference)
    /\ Calculated =>
           /\ WellFormed(body.claim_reference)
           /\ Len(db) > 0
           /\ body.claim_reference = db[Len(db)].claim_reference

\* A calculate request answered 200 returns a reference that no claim
\* stored before it carries, and the stored claims stay as they are.
FreshReferenceStep ==
    /\ Len(db') >= Len(db)
    /\ SubSeq(db', 1, Len(db)) = db
    /\ (handled' = handled + 1 /\ Val(response').status = 200) =>
           Val(Val(response').body).claim_reference \notin StoredReferences

\* C22: after any sequence of calculate requests, identical payloads
\* included, no two returned or stored claim references are equal, and
\* every reference is 'UC-' followed by 8 uppercase hexadecimal characters.
C22_ClaimReferencesDistinct ==
    []DistinctWellFormedReferences /\ [][FreshReferenceStep]_vars

\* Two claims stored from identical payloads under different references,
\* the second just returned.
C22_Witness ==
    /\ Calculated
    /\ Len(db) = 2
    /\ db[1].request = db[2].request
    /\ db[1].claim_reference # db[2].claim_reference
    /\ body.claim_reference = db[2].claim_reference

\* A calculate response agrees with the one row stored under its reference;
\* a retrieval answers with the amounts of the row stored under the
\* reference asked for, or with 404 when there is none.
StoredAsAnswered ==
    /\ Calculated =>
           /\ RowsOf(body.claim_reference) = {Len(db)}
           /\ db[Len(db)].results = body.results
    /\ pc = "retrieved" =>
           LET rows == RowsOf(Val(request).claim_reference)
           IN  IF rows = {}
               THEN Val(response) = [status |-> 404, body |-> None]
               ELSE /\ Val(response).status = 200
                    /\ body.claim_reference = Val(request).claim_reference
                    /\ \A i \in rows : body.results = db[i].results

\* A calculate request answered 200 appends exactly one row, carrying the
\* amounts of the response; any other request leaves the table as it is;
\* a stored row never changes.
StoreOnceStep ==
    /\ Len(db') >= Len(db)
    /\ SubSeq(db', 1, Len(db)) = db
    /\ handled' = handled + 1 =>
           IF Val(response').status = 200
           THEN /\ Len(db') = Len(db) + 1
                /\ db'[Len(db')].results = Val(Val(response').body).results
           ELSE db' = db
    /\ pc' = "retrieved" =>
           /\ db' = db
           /\ handled' = handled
           /\ rates' = rates

\* C28: every successful calculate request stores exactly one claim, and
\* retrieving by the returned reference yields the eight amounts of the
\* calculate response; retrieving a reference never issued yields 404 and
\* changes nothing.
C28_StoredOnceAndRetrievable ==
    []StoredAsAnswered /\ [][StoreOnceStep]_vars

\* The second of two stored claims with different amounts, retrieved by its
\* reference.
C28_Witness ==
    /\ pc = "retrieved"
    /\ Len(db) = 2
    /\ db[1].results # db[2].results
    /\ Val(request).claim_reference = db[2].claim_reference
    /\ Val(response).status = 200
    /\ body.results = db[2].results

(* ------------------------------------------------------------------ *)
(* Properties of the items store and the users store                   *)
(* ------------------------------------------------------------------ *)

\* Going from dictionary d to e, a record with identifier id was added and
\* nothing else changed: id was not a key, e has one record more, and every
\* record of d is in e as it was.
Added(d, e, id) ==
    /\ id \notin Keys(d)
    /\ Len(e) = Len(d) + 1
    /\ \A k \in Keys(d) : k \in Keys(e) /\ GetItem(e, k) = GetItem(d, k)

\* The step is a call of the named create handler.
Creates(handler) ==
    /\ request' # request \/ response' # response \/ modules' # modules
    /\ Val(request').handler = handler

\* C24: in both stores a create assigns an id that no stored record has and
\* the number of stored records grows by exactly one, whatever creates,
\* updates and deletes came before: no record is overwritten or lost.
C24_CreateNeverOverwrites ==
    [][ /\ Creates("create_item") =>
               Added(items_db, items_db', Val(Val(response').value).id)
        /\ Creates("create_user") =>
               Added(users_db, users_db', Val(Val(response').value).id) ]_vars

(* ------------------------------------------------------------------ *)
(* Properties of the MCP server                                        *)
(* ------------------------------------------------------------------ *)

\* The name and the arguments of the tool call.
tool == Val(request).name

args == Val(request).arguments

\* The call of the tool calculate_uc has reached calculator.calculate.
ToolCalculated == pc = "done" /\ tool = "calculate_uc" /\ ~IsNone(call)

\* What call_tool answers to the tool calculate_uc for arguments a, the
\* halves rounding as in the call made.
Answer(a) == Some(tool_outcome(dispatch("calculate_uc", a, half_up)))

\* C29: the dependents the tool calculate_uc passes to the engine are the
\* first num_children entries of children_ages, none disabled: as many as
\* min(num_children, length of children_ages) when num_children > 0 and
\* none otherwise, so that num_children > 0 without children_ages is
\* answered as a claim with no dependents is.
C29_DependentsFromAges ==
    ToolCalculated =>
        LET n        == Get(args, "num_children", 0)
            ages     == Get(args, "children_ages", <<>>)
            used     == IF n > 0 THEN Min(n, Len(ages)) ELSE 0
            children == Val(call).children
        IN  /\ Len(children) = used
            /\ \A i \in 1..used :
                   children[i] = [age |-> ages[i], is_disabled |-> FALSE]
            /\ (n > 0 /\ IsNone(args.children_ages)) =>
                   /\ children = <<>>
                   /\ response = Answer([args EXCEPT !.num_children = None])
                   /\ response = Answer([args EXCEPT
                                            !.num_children = Some(0),
                                            !.children_ages = Some(<<>>)])

\* One dependent asked for and two ages given: the engine got the first
\* age only and answered with a breakdown.
C29_Witness ==
    /\ ToolCalculated
    /\ raised = ""
    /\ args.num_children = Some(1)
    /\ args.children_ages = Some(<<5, 8>>)
    /\ Val(call).children = <<[age |-> 5, is_disabled |-> FALSE]>>
    /\ ~Val(Val(response).value).isError

\* The arguments name an area that the rate table does not hold.
AreaNotFound ==
    /\ ~IsNone(args.brma_code)
    /\ Val(args.brma_code) \notin DOMAIN DEFAULT_LHA_RATES

\* The causes of an error result.
UnknownTool ==
    tool \notin {"calculate_uc", "get_lha_rate", "list_lha_rates"}

InvalidClaimantType ==
    /\ tool = "calculate_uc"
    /\ ~IsNone(args.claimant_type)
    /\ Val(args.claimant_type) \notin {"single", "joint"}

MissingArgument ==
    \/ tool = "calculate_uc" /\ MissingRequired(args)
    \/ tool \in {"get_lha_rate", "list_lha_rates"} /\ IsNone(args.brma_code)

LookupNotFound ==
    tool \in {"get_lha_rate", "list_lha_rates"} /\ AreaNotFound

\* C30: call_tool returns a tool result for every tool name and argument
\* set and raises nothing; an unknown tool, an invalid claimant_type, a
\* missing required argument and a rate lookup that finds nothing are each
\* answered with isError, and nothing else is; the calculator's rates and
\* the rate table stay as they were.
C30_CallToolNeverPropagates ==
    pc = "done" =>
        /\ Val(response).raised = ""
        /\ LET result == Val(Val(response).value)
           IN  /\ result.isError \in BOOLEAN
               /\ Len(result.content) = 1
               /\ UnknownTool => result.isError
               /\ InvalidClaimantType => result.isError
               /\ MissingArgument => result.isError
               /\ LookupNotFound => result.isError
               /\ result.isError =>
                      \/ UnknownTool
                      \/ InvalidClaimantType
                      \/ MissingArgument
                      \/ LookupNotFound
        /\ rates = UCRates
        /\ lha_rates = DEFAULT_LHA_RATES

\* calculate raised ValueError for the arrangement "couple" and the tool
\* call was answered with an error result.
C30_Witness ==
    /\ pc = "done"
    /\ InvalidClaimantType
    /\ ~MissingRequired(args)
    /\ raised = "ValueError"
    /\ Val(response).raised = ""
    /\ Val(Val(response).value).isError

(* ------------------------------------------------------------------ *)
(* Properties of concurrent calls                                      *)
(* ------------------------------------------------------------------ *)

\* What the call of thread t comes to when it runs alone.
Alone(t) == calculate(threads[t].args, half_up_of(threads[t].args))

\* The schedule is as constructed; every local a thread has assigned is the
\* local of its call run alone, and every finished thread has the outcome
\* of its call run alone.
IsolatedResults ==
    /\ rates = UCRates
    /\ \A t \in Threads :
           LET th == threads[t]
           IN  /\ \A f \in DOMAIN th.locals :
                      th.locals[f] = Val(Alone(t).frame)[f]
               /\ th.pc = "done" =>
                      /\ th.raised = Alone(t).raised
                      /\ th.returned = Alone(t).returned

\* A step leaves the schedule as it is and changes the frame of one thread.
IsolatedStep ==
    /\ rates' = rates
    /\ Cardinality({t \in Threads : threads'[t] # threads[t]}) <= 1

\* C19: calculations interleaved in any way on the shared calculator and
\* schedule write neither the schedule nor each other's state, and each
\* result equals the result of running that calculation alone.
C19_InterleavedCallsAreIsolated ==
    []IsolatedResults /\ [][IsolatedStep]_vars

\* Thread 1 has returned the breakdown of its call run alone while thread
\* 2, with other arguments and another work allowance, is between its stages.
C19_Witness ==
    /\ threads[1].args # threads[2].args
    /\ threads[1].pc = "done"
    /\ ~IsNone(threads[1].returned)
    /\ threads[1].returned = Alone(1).returned
    /\ threads[2].pc = "deduction"
    /\ threads[1].locals.work_allowance
           # Assigned(threads[2].args, threads[2].locals.standard_allowance,
                      {"work_allowance"}).work_allowance

====
